---- MODULE Spec2Model ----
(***************************************************************************)
(* State-machine model of the signaling relay of src/server_hf.py:         *)
(* WebSocketManager (the connection registry), websocket_endpoint (one     *)
(* asyncio task per accepted channel) and maintenance_task (the sweeper),  *)
(* with shutdown_event, and of the presence tracker: websocket_heartbeat   *)
(* over the dict user_presence.                                            *)
(*                                                                         *)
(* The program is a single-threaded asyncio program.  A task runs until it *)
(* suspends: at an I/O await (accept, receive_json, send_json, close,      *)
(* sleep) or at the acquire of an asyncio.Lock that is held or has         *)
(* waiters.  The variable `running` names the task that is in the middle   *)
(* of a synchronous stretch of code; no other task steps until it          *)
(* suspends.                                                               *)
(*                                                                         *)
(* The environment (clients that open channels, send envelopes and drop,   *)
(* and the clock) follows one of a few workloads, drawn in Init: each      *)
(* bounds the channels, the envelopes and the clock steps of a run.  The   *)
(* history variables connectLog, discTrue, closes, sent, did, scan,        *)
(* arrival, delivered, updates and hbSent record what the program has      *)
(* done; the program never reads them.                                     *)
(***************************************************************************)
EXTENDS Integers, Sequences, FiniteSets, TLC

----------------------------------------------------------------------------
(* Bounds of the model *)

\* number of channels (websocket objects) the server accepts in one run
MaxChan == 3
\* number of inbound envelopes received over all channels in one run
MaxRecv == 2
\* number of times the clock advances in one run
MaxTicks == 1
\* number of heartbeat channels the server accepts in one run
MaxHb == 2
\* number of inbound heartbeats received over all heartbeat channels in one run
MaxBeats == 3
\* number of channels the legacy signalling endpoint accepts in one run
MaxLg == 2
\* number of inbound envelopes received over all legacy channels in one run
MaxLgRecv == 2

----------------------------------------------------------------------------
(* Program constants *)

WS_INACTIVITY_TIMEOUT == 90
WS_CLEANUP_INTERVAL == 30
WS_CONNECTION_TIMEOUT == 300
\* random.randint(1000, 9999): the two ends of the range
RandLo == 1000
RandHi == 9999
\* websocket close codes used by the program
CLOSE_NORMAL == 1000
CLOSE_POLICY_VIOLATION == 1008
CLOSE_INTERNAL_ERROR == 1011

\* the draws of random.randint the model follows
RandValues == {RandLo, RandHi}
\* the amounts by which the clock (seconds) advances between two steps
TickSteps == {WS_INACTIVITY_TIMEOUT, WS_INACTIVITY_TIMEOUT + 1, WS_CONNECTION_TIMEOUT + 1}

----------------------------------------------------------------------------
(* Strings: a Python str is a sequence of one-character strings *)

UpperAlpha == <<"A","B","C","D","E","F","G","H","I","J","K","L","M",
                "N","O","P","Q","R","S","T","U","V","W","X","Y","Z">>
LowerAlpha == <<"a","b","c","d","e","f","g","h","i","j","k","l","m",
                "n","o","p","q","r","s","t","u","v","w","x","y","z">>

LowerChar(ch) ==
    IF \E i \in DOMAIN UpperAlpha : UpperAlpha[i] = ch
    THEN LowerAlpha[CHOOSE i \in DOMAIN UpperAlpha : UpperAlpha[i] = ch]
    ELSE ch

\* str.lower()
StrLower(s) == [i \in DOMAIN s |-> LowerChar(s[i])]

IsSpace(ch) == ch \in {" ", "\t", "\n", "\r"}

SetMin(S) == CHOOSE x \in S : \A y \in S : x <= y
SetMax(S) == CHOOSE x \in S : \A y \in S : x >= y

\* str.strip()
StrStrip(s) ==
    LET keep == {i \in DOMAIN s : ~IsSpace(s[i])}
    IN  IF keep = {} THEN <<>> ELSE SubSeq(s, SetMin(keep), SetMax(keep))

S_undefined == <<"u","n","d","e","f","i","n","e","d">>
S_null == <<"n","u","l","l">>
S_empty == <<>>

\* the list ["undefined", "null", ""] of websocket_endpoint
InvalidUserIds == {S_undefined, S_null, S_empty}

\* Python None, and a key that a dict does not hold, in a field that holds a str
NoneId == <<"None">>
AbsentId == <<"absent">>

----------------------------------------------------------------------------
(* Tasks *)

Chans == 1..MaxChan
\* the websockets of /ws/heartbeat
HbChans == 1..MaxHb
\* the websockets of the legacy endpoint /ws/{user_id} of server.py
LgChans == 1..MaxLg
SweeperTask == 0
Tasks == {SweeperTask} \cup Chans
NoTask == -1

----------------------------------------------------------------------------
(* Inputs *)

UserA == <<"a">>
UserB == <<"b">>

\* the user_id path parameters clients connect with
RawUserIds ==
    {UserA, UserB, <<"N","u","l","L">>, S_undefined, S_null, S_empty,
     <<" ">>, <<" ","n","u","l","l">>, <<"a"," ">>}

\* inbound envelopes: {type, target_id?, payload?, data?}; any other key the client
\* puts in, a sender_id for one, is absent unless added
Envelope(t, g, p, d) ==
    [type |-> t, target_id |-> g, payload |-> p, data |-> d, sender_id |-> AbsentId]

\* the envelope with a sender_id key put in by the client
WithSender(env, s) == [env EXCEPT !.sender_id = s]

Envelopes ==
    {Envelope("ping", g, "None", "absent") : g \in {NoneId, UserB}}
    \cup {Envelope("offer", g, "sdp", "absent") : g \in {NoneId, S_empty, UserB}}
    \cup {WithSender(Envelope("answer", UserB, "None", "d1"), UserB)}

NoEnvelope == Envelope("None", NoneId, "None", "absent")

\* The workloads of a run: how many channels open, how many envelopes arrive and how
\* often the clock advances, and the user ids, envelopes and clock steps they are
\* drawn from, and whether peers vanish without a close (so that an accept or a write
\* on a channel the server has not closed fails).  A run follows one workload.
\* A workload may also bring heartbeat channels (hb of them, beats heartbeats in all)
\* and a shutdown of the server (stop), and closes that raise (closeFaults), or the
\* channels of the legacy endpoint (legacy of them, lgmsgs envelopes in all).
Workload(n, r, k, ids, envs, steps, faults) ==
    [chans |-> n, recv |-> r, ticks |-> k, ids |-> ids, envs |-> envs, steps |-> steps,
     faults |-> faults, hb |-> 0, beats |-> 0, stop |-> FALSE, closeFaults |-> FALSE,
     legacy |-> 0, lgmsgs |-> 0]

\* connects, disconnects and the sweeper, no traffic
RegistryLoad ==
    Workload(MaxChan, 0, MaxTicks, {UserA, UserB, <<"N","u","l","L">>}, {}, TickSteps, TRUE)
\* the user ids the endpoint refuses or takes
IdsLoad == Workload(MaxChan - 1, 0, 0, RawUserIds, {}, {}, FALSE)
\* traffic between two channels
LoopLoad == Workload(MaxChan - 1, MaxRecv, 0, {UserA, UserB}, Envelopes, {}, TRUE)
\* one offer while connections come and go and the sweeper evicts
RaceLoad ==
    Workload(MaxChan, MaxRecv - 1, MaxTicks, {UserA, UserB},
             {Envelope("offer", UserB, "sdp", "absent")}, {WS_INACTIVITY_TIMEOUT + 1}, FALSE)

\* a ping, then the sweeper, after the inactivity timeout or the connection timeout
SweepLoad ==
    Workload(MaxChan - 1, MaxRecv - 1, MaxTicks, {UserA, UserB},
             {Envelope("ping", NoneId, "None", "absent")},
             {WS_INACTIVITY_TIMEOUT + 1, WS_CONNECTION_TIMEOUT + 1}, FALSE)

\* two connections, a ping, and the server shuts down
StopLoad ==
    [Workload(MaxChan - 1, MaxRecv - 1, 0, {UserA, UserB},
              {Envelope("ping", NoneId, "None", "absent")}, {}, FALSE)
     EXCEPT !.stop = TRUE]

\* heartbeat channels only
HeartbeatLoad ==
    [Workload(0, 0, 0, {}, {}, {}, TRUE) EXCEPT !.hb = MaxHb, !.beats = MaxBeats]

\* two idle connections and the sweeper, with closes that raise
EvictLoad ==
    [Workload(MaxChan - 1, 0, MaxTicks, {UserA, UserB}, {}, {WS_INACTIVITY_TIMEOUT + 1},
              FALSE)
     EXCEPT !.closeFaults = TRUE]

\* channels of the legacy signalling endpoint only
LegacyLoad ==
    [Workload(0, 0, 0, {UserA, UserB}, {}, {}, TRUE)
     EXCEPT !.legacy = MaxLg, !.lgmsgs = MaxLgRecv]

Workloads ==
    {RegistryLoad, IdsLoad, LoopLoad, RaceLoad, SweepLoad, StopLoad, HeartbeatLoad,
     EvictLoad, LegacyLoad}

----------------------------------------------------------------------------
VARIABLES
    load,               \* the workload of the run
    now,                \* time.time(), in whole seconds
    ticks,              \* how often the clock has advanced
    wakeAt,             \* when the sweeper's asyncio.sleep ends
    active_connections, \* WebSocketManager.active_connections: a dict, in insertion order
    lockHolder,         \* WebSocketManager._lock: the task that holds it, or NoTask
    lockWaiters,        \* WebSocketManager._lock._waiters: queued tasks, first come first
    metrics,            \* WebSocketManager.metrics
    wsState,            \* per channel: the websocket's application state
    peerGone,           \* per channel: the peer has closed or vanished, and I/O on it fails
    closes,             \* per channel: the close codes of the close() calls made on it
    sent,               \* per channel: the messages written to it
    pc,                 \* per task: where it is suspended, or what it runs next
    blocked,            \* per task: suspended in the lock's waiter queue
    running,            \* the task inside a synchronous stretch, or NoTask
    user_id,            \* per handler: websocket_endpoint's user_id
    connection_id,      \* per handler: the connection_id connect returned
    data,               \* per handler: the inbound envelope being handled
    relay_message,      \* per handler: the relay envelope it built
    target_ws,          \* per handler: the websocket send_to_user is writing to
    inactive_users,     \* maintenance_task's list of (user_id, connection_id)
    nrecv,              \* envelopes received so far
    connectLog,         \* history: the successful connects, in order, each with the
                        \* websocket of the entry it replaced (0: none)
    discTrue,           \* history: the (user_id, connection_id) disconnect returned True for
    did,                \* history: per handler, what it did for the current envelope
    scan,               \* history: the time and the registry of the sweeper's scan, while
                        \* it works through its list
    stopped,            \* shutdown_event has run
    closeRaised,        \* history: the websockets whose close inside disconnect raised
    arrival,            \* history: per handler, the rank of arrival of its current envelope
    delivered,          \* history: per channel, the (handler, rank) of the relays written
    user_presence,      \* the dict user_presence, in insertion order
    hbPc,               \* per heartbeat channel: where websocket_heartbeat is suspended
    hbUser,             \* per heartbeat channel: websocket_heartbeat's user_id
    hbStatus,           \* per heartbeat channel: websocket_heartbeat's status
    nbeat,              \* heartbeats received so far
    updates,            \* history: the writes to user_presence, in order
    hbSent,             \* history: per heartbeat channel, the messages written to it
    signaling_websockets, \* server.py: the dict signaling_websockets, in insertion order
    lgPc,               \* per legacy channel: where websocket_signaling is suspended
    lgUser,             \* per legacy channel: websocket_signaling's user_id
    lgMsg,              \* per legacy channel: the message send_json is writing
    lgTarget,           \* per legacy channel: the websocket send_json is writing to
    lgRecv,             \* envelopes received so far on legacy channels
    lgSent              \* history: per legacy channel, the messages written to it

\* the variables of the presence tracker
hbVars == <<user_presence, hbPc, hbUser, hbStatus, nbeat, updates, hbSent>>

\* the variables of the legacy signalling endpoint
lgVars == <<signaling_websockets, lgPc, lgUser, lgMsg, lgTarget, lgRecv, lgSent>>

vars == <<load, now, ticks, wakeAt, active_connections, lockHolder, lockWaiters, metrics,
          wsState, peerGone, closes, sent, pc, blocked, running, user_id,
          connection_id, data, relay_message, target_ws, inactive_users, nrecv,
          connectLog, discTrue, did, scan, stopped, closeRaised, arrival, delivered,
          hbVars, lgVars>>

----------------------------------------------------------------------------
(* The dict active_connections: a sequence of entries in insertion order *)

DictHas(d, k) == \E i \in DOMAIN d : d[i].user_id = k
DictIdx(d, k) == CHOOSE i \in DOMAIN d : d[i].user_id = k
DictGet(d, k) == d[DictIdx(d, k)]

\* (mutation of DictSet: the new entry is added beside the old one)
DictSetBeside(d, k, entry) == Append(d, entry)

\* d[k] = entry
DictSet(d, k, entry) ==
    IF DictHas(d, k) THEN [d EXCEPT ![DictIdx(d, k)] = entry] ELSE Append(d, entry)

\* (mutation of DictDel: the first entry is deleted, whatever its key)
DictDelFirst(d, k) == Tail(d)

\* del d[k]
DictDel(d, k) ==
    LET i == DictIdx(d, k)
    IN  SubSeq(d, 1, i - 1) \o SubSeq(d, i + 1, Len(d))

\* list(d.keys())
DictKeys(d) == [i \in DOMAIN d |-> d[i].user_id]

----------------------------------------------------------------------------
(* Messages written to a channel; a field the message does not carry is absent *)

Message(t, et, s, g, p, av, st, ts) ==
    [type |-> t, error_type |-> et, sender_id |-> s, target_id |-> g, payload |-> p,
     available_users |-> av, status |-> st, timestamp |-> ts]

NoMessage == Message("None", "absent", AbsentId, AbsentId, "absent", <<AbsentId>>, "absent", -1)

\* {"type": "pong", "timestamp": time.time(), ...}
Pong(ts) == Message("pong", "absent", AbsentId, AbsentId, "absent", <<AbsentId>>, "absent", ts)

\* format_error_response(error_type, message, **kwargs)
ErrorResponse(et, s, g, av, ts) ==
    Message("error", et, s, g, "absent", av, "absent", ts)

\* f"{msg_type}-sent"
SentType(t) ==
    CASE t = "call" -> "call-sent"
      [] t = "offer" -> "offer-sent"
      [] t = "answer" -> "answer-sent"
      [] t = "ping" -> "ping-sent"
      [] OTHER -> "other-sent"

\* {"type": f"{msg_type}-sent", "target_id": ..., "status": "delivered", ...}
SentAck(t, g, ts) ==
    Message(SentType(t), "absent", AbsentId, g, "absent", <<AbsentId>>, "delivered", ts)

\* (mutation of PayloadData: the "data" key is not looked at)
PayloadDataNoFallback(env) == env.payload

\* payload_data = data.get("payload"); if None: data.get("data", {})
PayloadData(env) ==
    IF env.payload # "None" /\ env.payload # "absent" THEN env.payload
    ELSE IF env.data = "absent" THEN "{}" ELSE env.data

\* (mutation of RelayMessage: a sender_id the client put in is kept)
RelayMessageTrusting(env, sender, ts) ==
    Message(env.type, "absent", IF env.sender_id = AbsentId THEN sender ELSE env.sender_id,
            env.target_id, PayloadData(env), <<AbsentId>>, "absent", ts)

\* relay_message = {type, sender_id, target_id, timestamp, payload}
RelayMessage(env, sender, ts) ==
    Message(env.type, "absent", sender, env.target_id, PayloadData(env),
            <<AbsentId>>, "absent", ts)

\* no scan is being worked through
NoScan == [at |-> -1, conns |-> <<>>]

\* what a handler did for its current envelope
Event(e, w, m, u) == [ev |-> e, ws |-> w, msg |-> m, users |-> u]

----------------------------------------------------------------------------
Init ==
    /\ load \in Workloads
    /\ now = 0
    /\ ticks = 0
    /\ wakeAt = WS_CLEANUP_INTERVAL
    /\ active_connections = <<>>
    /\ lockHolder = NoTask
    /\ lockWaiters = <<>>
    /\ metrics = [total_connections |-> 0, messages_relayed |-> 0, errors |-> 0]
    /\ wsState = [c \in Chans |-> "connecting"]
    /\ peerGone = [c \in Chans |-> FALSE]
    /\ closes = [c \in Chans |-> <<>>]
    /\ sent = [c \in Chans |-> <<>>]
    /\ pc = [t \in Tasks |-> IF t = SweeperTask THEN "sleep" ELSE "idle"]
    /\ blocked = [t \in Tasks |-> FALSE]
    /\ running = NoTask
    /\ user_id = [c \in Chans |-> S_empty]
    /\ connection_id = [c \in Chans |-> <<S_empty, -1, -1>>]
    /\ data = [c \in Chans |-> NoEnvelope]
    /\ relay_message = [c \in Chans |-> NoMessage]
    /\ target_ws = [c \in Chans |-> 0]
    /\ inactive_users = <<>>
    /\ nrecv = 0
    /\ connectLog = <<>>
    /\ discTrue = {}
    /\ did = [c \in Chans |-> <<>>]
    /\ scan = NoScan
    /\ stopped = FALSE
    /\ closeRaised = {}
    /\ arrival = [c \in Chans |-> 0]
    /\ delivered = [c \in Chans |-> <<>>]
    /\ user_presence = <<>>
    /\ hbPc = [h \in HbChans |-> "idle"]
    /\ hbUser = [h \in HbChans |-> NoneId]
    /\ hbStatus = [h \in HbChans |-> NoneId]
    /\ nbeat = 0
    /\ updates = <<>>
    /\ hbSent = [h \in HbChans |-> <<>>]
    /\ signaling_websockets = <<>>
    /\ lgPc = [g \in LgChans |-> "idle"]
    /\ lgUser = [g \in LgChans |-> NoneId]
    /\ lgMsg = [g \in LgChans |-> NoMessage]
    /\ lgTarget = [g \in LgChans |-> 0]
    /\ lgRecv = 0
    /\ lgSent = [g \in LgChans |-> <<>>]

----------------------------------------------------------------------------
(* asyncio.Lock *)

\* Lock.acquire() by task t, whose next block is `label`, when the lock is in
\* the state (holder, waiters): taken at once when it is free and nobody
\* waits, else t joins the queue and suspends
EnterLock(t, label, holder, waiters) ==
    IF holder = NoTask /\ waiters = <<>>
    THEN /\ lockHolder' = t
         /\ lockWaiters' = waiters
         /\ pc' = [pc EXCEPT ![t] = label]
         /\ blocked' = [blocked EXCEPT ![t] = FALSE]
         /\ running' = t
    ELSE /\ lockHolder' = holder
         /\ lockWaiters' = Append(waiters, t)
         /\ pc' = [pc EXCEPT ![t] = label]
         /\ blocked' = [blocked EXCEPT ![t] = TRUE]
         /\ running' = NoTask

\* task t suspends at an I/O await, its next block being `label`
Suspend(t, label) ==
    /\ pc' = [pc EXCEPT ![t] = label]
    /\ running' = NoTask
    /\ UNCHANGED blocked

\* Lock.release() wakes the first waiter; it takes the lock when it next runs
LockWake(t) ==
    /\ running = NoTask
    /\ blocked[t]
    /\ lockHolder = NoTask
    /\ lockWaiters # <<>>
    /\ Head(lockWaiters) = t
    /\ lockHolder' = t
    /\ lockWaiters' = Tail(lockWaiters)
    /\ blocked' = [blocked EXCEPT ![t] = FALSE]
    /\ running' = t
    /\ UNCHANGED <<load, lgVars, closeRaised, hbVars, stopped, arrival, delivered, scan, now, ticks, wakeAt, active_connections, metrics, wsState, peerGone,
                   closes, sent, pc, user_id, connection_id, data, relay_message,
                   target_ws, inactive_users, nrecv, connectLog, discTrue, did>>

\* task t is at the start of block `label`, inside the lock
InLock(t, label) == pc[t] = label /\ running = t /\ lockHolder = t /\ ~blocked[t]

\* task t is suspended at the I/O await before block `label`
AtAwait(t, label) == pc[t] = label /\ running = NoTask /\ ~blocked[t]

----------------------------------------------------------------------------
(* The environment *)

\* the clock advances while every task is suspended; a stretch of code inside the
\* lock, its close or write included, takes no time of the model
Tick(d) ==
    /\ running = NoTask
    /\ lockHolder = NoTask
    /\ lockWaiters = <<>>
    /\ ticks < load.ticks
    /\ d \in load.steps
    /\ now' = now + d
    /\ ticks' = ticks + 1
    /\ UNCHANGED <<load, lgVars, closeRaised, hbVars, stopped, arrival, delivered, scan, wakeAt, active_connections, lockHolder, lockWaiters, metrics, wsState,
                   peerGone, closes, sent, pc, blocked, running, user_id, connection_id,
                   data, relay_message, target_ws, inactive_users, nrecv, connectLog,
                   discTrue, did>>

\* (mutation of Write: the message gets ahead of those written before)
WriteAhead(q, msg) == <<msg>> \o q

\* send_json returns: the message is on the channel, behind those written before
Write(q, msg) == Append(q, msg)

\* a write to websocket w goes through
WriteOk(w) == wsState[w] = "connected" /\ ~peerGone[w]

\* an I/O operation on websocket w fails: the peer is gone, if the server has not
\* closed w itself
IoFails(w) == peerGone' = [peerGone EXCEPT ![w] = (wsState[w] = "connected") \/ @]

\* websocket.close(code) on websocket w
CloseWs(w, code) ==
    /\ closes' = [closes EXCEPT ![w] = Append(@, code)]
    /\ wsState' = [wsState EXCEPT ![w] = "disconnected"]

----------------------------------------------------------------------------
(* websocket_endpoint: validation, and WebSocketManager.connect *)

\* not user_id or user_id.lower() in ["undefined", "null", ""]
IsInvalidUserId(raw) == raw = S_empty \/ StrLower(raw) \in InvalidUserIds

\* user_id = user_id.strip()
NormalizeUserId(raw) == StrStrip(raw)

\* f"conn_{user_id}_{int(time.time())}_{random.randint(1000, 9999)}"
ConnectionId(u, t, r) == <<u, t, r>>

\* (mutation of NewConnection: the entry keeps the websocket of the entry it replaces)
NewConnectionOldSocket(c, t) ==
    [user_id |-> user_id[c],
     websocket |-> IF DictHas(active_connections, user_id[c])
                   THEN DictGet(active_connections, user_id[c]).websocket
                   ELSE c,
     connection_id |-> connection_id[c], last_ping |-> t, connected_at |-> t]

\* the entry connect stores
NewConnection(c, t) ==
    [user_id |-> user_id[c], websocket |-> c, connection_id |-> connection_id[c],
     last_ping |-> t, connected_at |-> t]

\* the draws of random.randint that tell runs apart: connection ids are only ever
\* compared for equality, so the first id drawn for a user within one second may as
\* well carry RandLo; a later one repeats an earlier draw or does not
RandChoices(u, t) ==
    IF \E c \in Chans : connection_id[c] = ConnectionId(u, t, RandLo)
    THEN RandValues
    ELSE {RandLo}

\* a client opens channel c on /ws/{raw}; channels are numbered in the order they open
Opens(c) ==
    /\ running = NoTask
    /\ c <= load.chans
    /\ pc[c] = "idle"
    /\ c > 1 => pc[c - 1] # "idle"

\* websocket_endpoint refuses the user_id: close(1008) before anything is registered
Reject(c, raw) ==
    /\ Opens(c)
    /\ raw \in load.ids
    /\ IsInvalidUserId(raw)
    /\ CloseWs(c, CLOSE_POLICY_VIOLATION)
    /\ Suspend(c, "done")
    /\ UNCHANGED <<load, lgVars, closeRaised, hbVars, stopped, arrival, delivered, scan, now, ticks, wakeAt, active_connections, lockHolder, lockWaiters, metrics,
                   peerGone, sent, user_id, connection_id, data, relay_message,
                   target_ws, inactive_users, nrecv, connectLog, discTrue, did>>

\* websocket_endpoint takes the user_id and calls connect: websocket.accept() returns,
\* the connection_id is drawn, the lock is asked for.  (The await of accept is not a
\* step of its own: the handler has touched nothing shared before it returns.)
AcceptOk(c, raw, r) ==
    /\ Opens(c)
    /\ raw \in load.ids
    /\ ~IsInvalidUserId(raw)
    /\ r \in RandChoices(NormalizeUserId(raw), now)
    /\ user_id' = [user_id EXCEPT ![c] = NormalizeUserId(raw)]
    /\ wsState' = [wsState EXCEPT ![c] = "connected"]
    /\ connection_id' = [connection_id EXCEPT
                           ![c] = ConnectionId(NormalizeUserId(raw), now, r)]
    /\ EnterLock(c, "connect", lockHolder, lockWaiters)
    /\ UNCHANGED <<load, lgVars, closeRaised, hbVars, stopped, arrival, delivered, scan, now, ticks, wakeAt, active_connections, metrics, peerGone, closes,
                   sent, data, relay_message, target_ws, inactive_users, nrecv,
                   connectLog, discTrue, did>>

\* (mutation of AcceptFail: the endpoint goes through disconnect after a failed connect)
AcceptFailDisconnecting(c, raw) ==
    /\ Opens(c)
    /\ raw \in load.ids
    /\ ~IsInvalidUserId(raw)
    /\ load.faults
    /\ user_id' = [user_id EXCEPT ![c] = NormalizeUserId(raw)]
    /\ peerGone' = [peerGone EXCEPT ![c] = TRUE]
    /\ CloseWs(c, CLOSE_INTERNAL_ERROR)
    /\ EnterLock(c, "disconnect", lockHolder, lockWaiters)
    /\ UNCHANGED <<load, lgVars, closeRaised, hbVars, stopped, arrival, delivered, scan, now, ticks, wakeAt, active_connections, metrics,
                   sent, connection_id, data, relay_message,
                   target_ws, inactive_users, nrecv, connectLog, discTrue, did>>

\* websocket_endpoint takes the user_id and calls connect: the peer is gone,
\* websocket.accept() raises, connect returns ("", False), the endpoint closes with
\* 1011 and returns without a disconnect
AcceptFail(c, raw) ==
    /\ Opens(c)
    /\ raw \in load.ids
    /\ ~IsInvalidUserId(raw)
    /\ load.faults
    /\ user_id' = [user_id EXCEPT ![c] = NormalizeUserId(raw)]
    /\ peerGone' = [peerGone EXCEPT ![c] = TRUE]
    /\ CloseWs(c, CLOSE_INTERNAL_ERROR)
    /\ Suspend(c, "done")
    /\ UNCHANGED <<load, lgVars, closeRaised, hbVars, stopped, arrival, delivered, scan, now, ticks, wakeAt, active_connections, lockHolder, lockWaiters, metrics,
                   sent, connection_id, data, relay_message,
                   target_ws, inactive_users, nrecv, connectLog, discTrue, did>>

\* connect, end of the locked block: the entry is stored, the lock released, connect
\* returns and the endpoint suspends in its first receive_json
Register(c) ==
    /\ active_connections' = DictSet(active_connections, user_id[c], NewConnection(c, now))
    /\ metrics' = [metrics EXCEPT !.total_connections = @ + 1]
    /\ connectLog' = Append(connectLog,
                            [user_id |-> user_id[c], websocket |-> c,
                             connection_id |-> connection_id[c],
                             replaced |-> IF DictHas(active_connections, user_id[c])
                                          THEN DictGet(active_connections, user_id[c]).websocket
                                          ELSE 0])
    /\ lockHolder' = NoTask
    /\ Suspend(c, "recv")
    /\ UNCHANGED lockWaiters

\* (mutation of ConnectLocked: the old websocket is replaced without being closed)
ConnectLockedNoClose(c) ==
    /\ InLock(c, "connect")
    /\ Register(c)
    /\ UNCHANGED <<closes, wsState>>
    /\ UNCHANGED <<load, lgVars, closeRaised, hbVars, stopped, arrival, delivered, scan, now, ticks, wakeAt, peerGone, sent, user_id, connection_id, data,
                   relay_message, target_ws, inactive_users, nrecv, discTrue, did>>

\* connect, start of the locked block: an existing connection of the user is closed first
ConnectLocked(c) ==
    /\ InLock(c, "connect")
    /\ IF DictHas(active_connections, user_id[c])
       THEN /\ CloseWs(DictGet(active_connections, user_id[c]).websocket, CLOSE_NORMAL)
            /\ Suspend(c, "connect_closed")
            /\ UNCHANGED <<active_connections, metrics, connectLog, lockHolder, lockWaiters>>
       ELSE /\ Register(c)
            /\ UNCHANGED <<closes, wsState>>
    /\ UNCHANGED <<load, lgVars, closeRaised, hbVars, stopped, arrival, delivered, scan, now, ticks, wakeAt, peerGone, sent, user_id, connection_id, data,
                   relay_message, target_ws, inactive_users, nrecv, discTrue, did>>

\* connect: the close of the old websocket has returned or raised (ignored)
ConnectClosed(c) ==
    /\ AtAwait(c, "connect_closed")
    /\ Register(c)
    /\ UNCHANGED <<load, lgVars, closeRaised, hbVars, stopped, arrival, delivered, scan, now, ticks, wakeAt, wsState, peerGone, closes, sent, user_id,
                   connection_id, data, relay_message, target_ws, inactive_users, nrecv,
                   discTrue, did>>

----------------------------------------------------------------------------
(* websocket_endpoint: the receive loop *)

\* (mutation of IsPing: no envelope is taken for a ping)
IsPingNever(msg_type) == FALSE

\* msg_type == "ping"
IsPing(msg_type) == msg_type = "ping"

\* (mutation of TargetMissing: only an absent target_id counts, an empty one passes)
TargetMissingNoneOnly(target_id) == target_id = NoneId

\* not target_id
TargetMissing(target_id) == target_id = NoneId \/ target_id = S_empty

\* (mutation of IsAcked: every relayed type is acknowledged)
IsAckedAlways(msg_type) == TRUE

\* msg_type in ["call", "offer"]
IsAcked(msg_type) == msg_type \in {"call", "offer"}

\* (mutation of UpdatePing: last_ping is left as it is)
UpdatePingNever(d, u, t) == d

\* update_ping, inside the lock
UpdatePing(d, u, t) ==
    IF DictHas(d, u) THEN [d EXCEPT ![DictIdx(d, u)].last_ping = t] ELSE d

\* the handler, outside the lock, starts websocket.send_json(msg) on its own channel
Reply(c, msg) ==
    /\ did' = [did EXCEPT ![c] = Append(@, Event("reply", c, msg, <<>>))]
    /\ lockHolder' = NoTask
    /\ Suspend(c, "send_reply")
    /\ UNCHANGED lockWaiters

\* receive_json returns an envelope; update_ping asks for the lock
Receive(c, env) ==
    /\ AtAwait(c, "recv")
    /\ wsState[c] = "connected"
    /\ ~peerGone[c]
    /\ nrecv < load.recv
    /\ env \in load.envs
    /\ nrecv' = nrecv + 1
    /\ arrival' = [arrival EXCEPT ![c] = nrecv + 1]
    /\ data' = [data EXCEPT ![c] = env]
    /\ did' = [did EXCEPT ![c] = <<>>]
    /\ EnterLock(c, "touch", lockHolder, lockWaiters)
    /\ UNCHANGED <<load, lgVars, closeRaised, hbVars, stopped, delivered, scan, now, ticks, wakeAt, active_connections, metrics, wsState, peerGone,
                   closes, sent, user_id, connection_id, relay_message, target_ws,
                   inactive_users, connectLog, discTrue>>

\* receive_json raises (the peer closes or is gone, or the channel was closed under
\* the handler):
\* the finally block calls disconnect, which asks for the lock
ReceiveFail(c) ==
    /\ AtAwait(c, "recv")
    /\ IoFails(c)
    /\ UNCHANGED <<data, did>>
    /\ EnterLock(c, "disconnect", lockHolder, lockWaiters)
    /\ UNCHANGED <<load, lgVars, closeRaised, hbVars, stopped, arrival, delivered, scan, now, ticks, wakeAt, active_connections, metrics, wsState,
                   closes, sent, user_id, connection_id, relay_message, target_ws,
                   inactive_users, nrecv, connectLog, discTrue>>

\* update_ping inside the lock, then the dispatch on the envelope up to the next await
Touch(c) ==
    /\ InLock(c, "touch")
    /\ active_connections' = UpdatePing(active_connections, user_id[c], now)
    /\ IF IsPing(data[c].type)
       THEN Reply(c, Pong(now))
       ELSE IF TargetMissing(data[c].target_id)
            THEN Reply(c, ErrorResponse("VALIDATION_ERROR", user_id[c], AbsentId,
                                        <<AbsentId>>, now))
            ELSE /\ EnterLock(c, "isconn", NoTask, lockWaiters)
                 /\ UNCHANGED did
    /\ UNCHANGED <<load, lgVars, closeRaised, hbVars, stopped, arrival, delivered, scan, now, ticks, wakeAt, metrics, wsState, peerGone, closes, sent, user_id,
                   connection_id, data, relay_message, target_ws, inactive_users, nrecv,
                   connectLog, discTrue>>

\* is_user_connected inside the lock; then get_connected_users or send_to_user asks
\* for the lock again
IsUserConnected(c) ==
    /\ InLock(c, "isconn")
    /\ did' = [did EXCEPT ![c] = Append(@, Event("lookup", 0, NoMessage,
                                                 DictKeys(active_connections)))]
    /\ IF DictHas(active_connections, data[c].target_id)
       THEN /\ relay_message' = [relay_message EXCEPT
                                   ![c] = RelayMessage(data[c], user_id[c], now)]
            /\ EnterLock(c, "relay", NoTask, lockWaiters)
       ELSE /\ EnterLock(c, "list", NoTask, lockWaiters)
            /\ UNCHANGED relay_message
    /\ UNCHANGED <<load, lgVars, closeRaised, hbVars, stopped, arrival, delivered, scan, now, ticks, wakeAt, active_connections, metrics, wsState, peerGone,
                   closes, sent, user_id, connection_id, data, target_ws, inactive_users,
                   nrecv, connectLog, discTrue>>

\* get_connected_users inside the lock, then the TARGET_NOT_CONNECTED reply
GetConnectedUsers(c) ==
    /\ InLock(c, "list")
    /\ Reply(c, ErrorResponse("TARGET_NOT_CONNECTED", user_id[c], data[c].target_id,
                              DictKeys(active_connections), now))
    /\ UNCHANGED <<load, lgVars, closeRaised, hbVars, stopped, arrival, delivered, scan, now, ticks, wakeAt, active_connections, metrics, wsState, peerGone,
                   closes, sent, user_id, connection_id, data, relay_message, target_ws,
                   inactive_users, nrecv, connectLog, discTrue>>

\* send_to_user inside the lock: the target is looked up and the write started
SendToUser(c) ==
    /\ InLock(c, "relay")
    /\ IF ~DictHas(active_connections, data[c].target_id)
       THEN /\ Reply(c, ErrorResponse("SEND_FAILED", user_id[c], data[c].target_id,
                                      <<AbsentId>>, now))
            /\ UNCHANGED target_ws
       ELSE LET w == DictGet(active_connections, data[c].target_id).websocket
            IN  /\ target_ws' = [target_ws EXCEPT ![c] = w]
                /\ did' = [did EXCEPT ![c] = Append(@, Event("relay", w, relay_message[c],
                                                             <<>>))]
                /\ Suspend(c, "relay_send")
                /\ UNCHANGED <<lockHolder, lockWaiters>>
    /\ UNCHANGED <<load, lgVars, closeRaised, hbVars, stopped, arrival, delivered, scan, now, ticks, wakeAt, active_connections, metrics, wsState, peerGone,
                   closes, sent, user_id, connection_id, data, relay_message,
                   inactive_users, nrecv, connectLog, discTrue>>

\* the handler is back at receive_json: the envelope is done with
LoopBack(c) ==
    /\ data' = [data EXCEPT ![c] = NoEnvelope]
    /\ did' = [did EXCEPT ![c] = <<>>]

\* (mutation of RelaySent: a failed write evicts the target's entry)
RelaySentEvicting(c, ok) ==
    /\ AtAwait(c, "relay_send")
    /\ ok => WriteOk(target_ws[c])
    /\ ~ok => load.faults \/ ~WriteOk(target_ws[c])
    /\ IF ok
       THEN /\ sent' = [sent EXCEPT ![target_ws[c]] = Write(@, relay_message[c])]
            /\ delivered' = [delivered EXCEPT ![target_ws[c]] =
                                 Write(@, [from |-> c, rank |-> arrival[c]])]
            /\ metrics' = [metrics EXCEPT !.messages_relayed = @ + 1]
            /\ IF IsAcked(data[c].type)
               THEN /\ Reply(c, SentAck(data[c].type, data[c].target_id, now))
                    /\ UNCHANGED data
               ELSE /\ lockHolder' = NoTask
                    /\ Suspend(c, "recv")
                    /\ LoopBack(c)
                    /\ UNCHANGED lockWaiters
            /\ UNCHANGED <<peerGone, active_connections>>
       ELSE /\ IoFails(target_ws[c])
            /\ metrics' = [metrics EXCEPT !.errors = @ + 1]
            /\ active_connections' = DictDel(active_connections, data[c].target_id)
            /\ Reply(c, ErrorResponse("SEND_FAILED", user_id[c], data[c].target_id,
                                      <<AbsentId>>, now))
            /\ UNCHANGED <<sent, data, delivered>>
    /\ UNCHANGED <<load, lgVars, closeRaised, hbVars, stopped, arrival, scan, now, ticks, wakeAt, wsState, closes,
                   user_id, connection_id, relay_message, target_ws, inactive_users,
                   nrecv, connectLog, discTrue>>

\* (mutation of RelaySent: a write that raised is counted as relayed, not as an error)
RelaySentMiscounting(c, ok) ==
    /\ AtAwait(c, "relay_send")
    /\ ok => WriteOk(target_ws[c])
    /\ ~ok => load.faults \/ ~WriteOk(target_ws[c])
    /\ IF ok
       THEN /\ sent' = [sent EXCEPT ![target_ws[c]] = Write(@, relay_message[c])]
            /\ delivered' = [delivered EXCEPT ![target_ws[c]] =
                                 Write(@, [from |-> c, rank |-> arrival[c]])]
            /\ metrics' = [metrics EXCEPT !.messages_relayed = @ + 1]
            /\ IF IsAcked(data[c].type)
               THEN /\ Reply(c, SentAck(data[c].type, data[c].target_id, now))
                    /\ UNCHANGED data
               ELSE /\ lockHolder' = NoTask
                    /\ Suspend(c, "recv")
                    /\ LoopBack(c)
                    /\ UNCHANGED lockWaiters
            /\ UNCHANGED peerGone
       ELSE /\ IoFails(target_ws[c])
            /\ metrics' = [metrics EXCEPT !.messages_relayed = @ + 1]
            /\ Reply(c, ErrorResponse("SEND_FAILED", user_id[c], data[c].target_id,
                                      <<AbsentId>>, now))
            /\ UNCHANGED <<sent, data, delivered>>
    /\ UNCHANGED <<load, lgVars, closeRaised, hbVars, stopped, arrival, scan, now, ticks, wakeAt, active_connections, wsState, closes,
                   user_id, connection_id, relay_message, target_ws, inactive_users,
                   nrecv, connectLog, discTrue>>

\* send_to_user: the write to the target returns (ok) or raises; the lock is released
\* and the handler acknowledges or reports the failure
RelaySent(c, ok) ==
    /\ AtAwait(c, "relay_send")
    /\ ok => WriteOk(target_ws[c])
    /\ ~ok => load.faults \/ ~WriteOk(target_ws[c])
    /\ IF ok
       THEN /\ sent' = [sent EXCEPT ![target_ws[c]] = Write(@, relay_message[c])]
            /\ delivered' = [delivered EXCEPT ![target_ws[c]] =
                                 Write(@, [from |-> c, rank |-> arrival[c]])]
            /\ metrics' = [metrics EXCEPT !.messages_relayed = @ + 1]
            /\ IF IsAcked(data[c].type)
               THEN /\ Reply(c, SentAck(data[c].type, data[c].target_id, now))
                    /\ UNCHANGED data
               ELSE /\ lockHolder' = NoTask
                    /\ Suspend(c, "recv")
                    /\ LoopBack(c)
                    /\ UNCHANGED lockWaiters
            /\ UNCHANGED peerGone
       ELSE /\ IoFails(target_ws[c])
            /\ metrics' = [metrics EXCEPT !.errors = @ + 1]
            /\ Reply(c, ErrorResponse("SEND_FAILED", user_id[c], data[c].target_id,
                                      <<AbsentId>>, now))
            /\ UNCHANGED <<sent, data, delivered>>
    /\ UNCHANGED <<load, lgVars, closeRaised, hbVars, stopped, arrival, scan, now, ticks, wakeAt, active_connections, wsState, closes,
                   user_id, connection_id, relay_message, target_ws, inactive_users,
                   nrecv, connectLog, discTrue>>

\* the write of a reply on the handler's own channel returns (ok: the loop goes on) or
\* raises (the finally block calls disconnect)
ReplySent(c, ok) ==
    /\ AtAwait(c, "send_reply")
    /\ ok => WriteOk(c)
    /\ ~ok => load.faults \/ ~WriteOk(c)
    /\ IF ok
       THEN /\ sent' = [sent EXCEPT ![c] = Write(@, did[c][Len(did[c])].msg)]
            /\ Suspend(c, "recv")
            /\ UNCHANGED <<lockHolder, lockWaiters, peerGone>>
       ELSE /\ IoFails(c)
            /\ EnterLock(c, "disconnect", lockHolder, lockWaiters)
            /\ UNCHANGED sent
    /\ LoopBack(c)
    /\ UNCHANGED <<load, lgVars, closeRaised, hbVars, stopped, arrival, delivered, scan, now, ticks, wakeAt, active_connections, metrics, wsState,
                   closes, user_id, connection_id, relay_message, target_ws,
                   inactive_users, nrecv, connectLog, discTrue>>

----------------------------------------------------------------------------
(* WebSocketManager.disconnect, called by a handler's finally block and by the sweeper *)

\* the arguments of the call task t makes
DiscUser(t) == IF t = SweeperTask THEN inactive_users[1][1] ELSE user_id[t]
DiscCid(t) == IF t = SweeperTask THEN inactive_users[1][2] ELSE connection_id[t]

\* (mutation of DisconnectMatches: no call is honoured)
DisconnectMatchesNever(d, u, cid) == FALSE

\* user_id in self.active_connections and conn['connection_id'] == connection_id
DisconnectMatches(d, u, cid) == DictHas(d, u) /\ DictGet(d, u).connection_id = cid

\* disconnect has released the lock and returns to its caller: the handler ends, the
\* sweeper goes on with its list or sleeps
DisconnectReturn(t) ==
    IF t = SweeperTask
    THEN /\ inactive_users' = Tail(inactive_users)
         /\ IF Tail(inactive_users) = <<>>
            THEN /\ lockHolder' = NoTask
                 /\ wakeAt' = now + WS_CLEANUP_INTERVAL
                 /\ scan' = NoScan
                 /\ Suspend(t, "sleep")
                 /\ UNCHANGED lockWaiters
            ELSE /\ EnterLock(t, "disconnect", NoTask, lockWaiters)
                 /\ UNCHANGED <<wakeAt, scan>>
    ELSE /\ lockHolder' = NoTask
         /\ Suspend(t, "done")
         /\ UNCHANGED <<lockWaiters, inactive_users, wakeAt, scan>>

\* disconnect inside the lock: the entry is compared and its websocket closed
Disconnect(t) ==
    /\ InLock(t, "disconnect")
    /\ IF DisconnectMatches(active_connections, DiscUser(t), DiscCid(t))
       THEN /\ CloseWs(DictGet(active_connections, DiscUser(t)).websocket, CLOSE_NORMAL)
            /\ Suspend(t, "disc_close")
            /\ UNCHANGED <<lockHolder, lockWaiters, inactive_users, wakeAt, scan>>
       ELSE /\ DisconnectReturn(t)
            /\ UNCHANGED <<closes, wsState>>
    /\ UNCHANGED <<load, lgVars, closeRaised, hbVars, stopped, arrival, delivered, now, ticks, active_connections, metrics, peerGone, sent, user_id,
                   connection_id, data, relay_message, target_ws, nrecv, connectLog,
                   discTrue, did>>

\* (mutation of DropClosed: a close that raised leaves the entry in the registry)
DropClosedUnlessRaised(d, u, raised) == IF raised THEN d ELSE DictDel(d, u)

\* try: await close(...) / except: pass / del self.active_connections[user_id]
DropClosed(d, u, raised) == DictDel(d, u)

\* disconnect: the close has returned or raised (ignored); the entry is deleted
DisconnectClosed(t, raised) ==
    /\ AtAwait(t, "disc_close")
    /\ raised => load.closeFaults
    /\ closeRaised' = IF raised
                      THEN closeRaised \cup {DictGet(active_connections, DiscUser(t)).websocket}
                      ELSE closeRaised
    /\ active_connections' = DropClosed(active_connections, DiscUser(t), raised)
    /\ discTrue' = discTrue \cup {<<DiscUser(t), DiscCid(t)>>}
    /\ DisconnectReturn(t)
    /\ UNCHANGED <<load, lgVars, hbVars, stopped, arrival, delivered, now, ticks, metrics, wsState, peerGone, closes, sent, user_id,
                   connection_id, data, relay_message, target_ws, nrecv, connectLog, did>>

----------------------------------------------------------------------------
(* maintenance_task *)

\* (mutation of Expired: the inactivity test is left out)
ExpiredAbsoluteOnly(conn, t) == t - conn.connected_at > WS_CONNECTION_TIMEOUT

\* (mutation of Expired: the tests are >= instead of >)
ExpiredAtThreshold(conn, t) ==
    \/ t - conn.last_ping >= WS_INACTIVITY_TIMEOUT
    \/ t - conn.connected_at >= WS_CONNECTION_TIMEOUT

\* (mutation of Expired: the connection timeout is left out)
ExpiredInactivityOnly(conn, t) == t - conn.last_ping > WS_INACTIVITY_TIMEOUT

\* inactive_time > WS_INACTIVITY_TIMEOUT or total_time > WS_CONNECTION_TIMEOUT
Expired(conn, t) ==
    \/ t - conn.last_ping > WS_INACTIVITY_TIMEOUT
    \/ t - conn.connected_at > WS_CONNECTION_TIMEOUT

\* the scan of list(active_connections.items()), made without the lock
InactiveUsers(d, t) ==
    LET old == SelectSeq(d, LAMBDA conn : Expired(conn, t))
    IN  [i \in DOMAIN old |-> <<old[i].user_id, old[i].connection_id>>]

\* the sleep ends: the sweeper scans, then starts on its list or sleeps again
Sweep ==
    /\ AtAwait(SweeperTask, "sleep")
    /\ now >= wakeAt
    /\ LET found == InactiveUsers(active_connections, now)
       IN  IF found = <<>>
           THEN /\ wakeAt' = now + WS_CLEANUP_INTERVAL
                /\ UNCHANGED <<inactive_users, lockHolder, lockWaiters, pc, blocked,
                               running, scan>>
           ELSE /\ inactive_users' = found
                /\ scan' = [at |-> now, conns |-> active_connections]
                /\ EnterLock(SweeperTask, "disconnect", lockHolder, lockWaiters)
                /\ UNCHANGED wakeAt
    /\ UNCHANGED <<load, lgVars, closeRaised, hbVars, stopped, arrival, delivered, now, ticks, active_connections, metrics, wsState, peerGone, closes,
                   sent, user_id, connection_id, data, relay_message, target_ws, nrecv,
                   connectLog, discTrue, did>>

----------------------------------------------------------------------------
(* shutdown_event *)

\* the server shuts down: shutdown_event logs a line
ShutdownEvent ==
    /\ running = NoTask
    /\ load.stop
    /\ ~stopped
    /\ stopped' = TRUE
    /\ UNCHANGED <<load, lgVars, closeRaised, hbVars, arrival, delivered, scan, now, ticks, wakeAt,
                   active_connections, lockHolder, lockWaiters, metrics, wsState, peerGone,
                   closes, sent, pc, blocked, running, user_id, connection_id, data,
                   relay_message, target_ws, inactive_users, nrecv, connectLog, discTrue,
                   did>>

----------------------------------------------------------------------------
(* websocket_heartbeat and the dict user_presence *)

StOnline == <<"o","n","l","i","n","e">>
StOffline == <<"o","f","f","l","i","n","e">>
StAway == <<"a","w","a","y">>

\* the text of a heartbeat is a JSON object {user_id?, status?}, some other JSON value,
\* or a text that is no JSON
JsonObject(u, st) == [form |-> "object", user_id |-> u, status |-> st, text |-> <<>>]
JsonScalar == [form |-> "scalar", user_id |-> AbsentId, status |-> AbsentId, text |-> <<>>]
Text(chars) == [form |-> "text", user_id |-> AbsentId, status |-> AbsentId, text |-> chars]

\* the heartbeats clients send
Heartbeats ==
    {JsonObject(UserA, AbsentId), JsonObject(UserA, StAway), JsonObject(UserB, StAway),
     JsonObject(AbsentId, StAway), JsonObject(S_empty, AbsentId), JsonScalar,
     Text(UserA \o <<":">> \o StAway), Text(<<":">> \o StAway), Text(UserA),
     Text(UserB \o <<":">>)}

\* message.get("user_id"): None when the key is absent
GetUserId(message) == IF message.user_id = AbsentId THEN NoneId ELSE message.user_id

\* message.get("status", "online")
GetStatus(message) == IF message.status = AbsentId THEN StOnline ELSE message.status

\* if user_id: neither None nor ""
Truthy(u) == u # NoneId /\ u # S_empty

\* ":" in data
HasColon(text) == \E i \in DOMAIN text : text[i] = ":"

\* data.split(":", 1): the text before the first colon and the text behind it
SplitColon(text) ==
    LET i == SetMin({k \in DOMAIN text : text[k] = ":"})
    IN  <<SubSeq(text, 1, i - 1), SubSeq(text, i + 1, Len(text))>>

\* {"status": status, "last_seen": generate_timestamp(), "protocol": "WebSocket"},
\* with the key it is stored under
PresenceRecord(u, st, t) ==
    [user_id |-> u, status |-> st, last_seen |-> t, protocol |-> "WebSocket"]

\* {"status": "offline", "last_seen": None}
PresenceDefault(u) ==
    [user_id |-> u, status |-> StOffline, last_seen |-> -1, protocol |-> "absent"]

\* (mutation of GetUserPresence: the stored record is not looked at)
GetUserPresenceDefault(d, u) == PresenceDefault(u)

\* get_user_presence(user_id)
GetUserPresence(d, u) == IF DictHas(d, u) THEN DictGet(d, u) ELSE PresenceDefault(u)

\* {"type": "presence_ack", "user_id": user_id, "status": status, "timestamp": ...}
PresenceAck(u, st, t) == [type |-> "presence_ack", user_id |-> u, status |-> st, timestamp |-> t]

\* user_presence[u] = {...}, by websocket_heartbeat on channel h
SetPresence(h, u, st) ==
    /\ user_presence' = DictSet(user_presence, u, PresenceRecord(u, st, now))
    /\ updates' = Append(updates, [by |-> h, user_id |-> u, status |-> st])

\* a client opens heartbeat channel h: websocket.accept() returns and the loop starts,
\* or raises and the handler ends
HbAccept(h, ok) ==
    /\ running = NoTask
    /\ h <= load.hb
    /\ hbPc[h] = "idle"
    /\ h > 1 => hbPc[h - 1] # "idle"
    /\ ~ok => load.faults
    /\ hbPc' = [hbPc EXCEPT ![h] = IF ok THEN "recv" ELSE "done"]
    /\ hbUser' = [hbUser EXCEPT ![h] = NoneId]
    /\ UNCHANGED <<user_presence, hbStatus, nbeat, updates, hbSent>>
    /\ UNCHANGED <<load, lgVars, closeRaised, stopped, arrival, delivered, scan, now, ticks, wakeAt,
                   active_connections, lockHolder, lockWaiters, metrics, wsState, peerGone,
                   closes, sent, pc, blocked, running, user_id, connection_id, data,
                   relay_message, target_ws, inactive_users, nrecv, connectLog, discTrue,
                   did>>

\* receive_text returns a heartbeat: the record is written and, for a JSON object, the
\* acknowledgment started; a JSON value that is no object makes message.get raise, which
\* ends the handler in `except Exception`
HbReceive(h, beat) ==
    /\ running = NoTask
    /\ hbPc[h] = "recv"
    /\ nbeat < load.beats
    /\ nbeat' = nbeat + 1
    /\ CASE beat.form = "object" ->
              /\ hbUser' = [hbUser EXCEPT ![h] = GetUserId(beat)]
              /\ hbStatus' = [hbStatus EXCEPT ![h] = GetStatus(beat)]
              /\ IF Truthy(GetUserId(beat))
                 THEN /\ SetPresence(h, GetUserId(beat), GetStatus(beat))
                      /\ hbPc' = [hbPc EXCEPT ![h] = "send_ack"]
                 ELSE UNCHANGED <<user_presence, updates, hbPc>>
         [] beat.form = "scalar" ->
              /\ hbPc' = [hbPc EXCEPT ![h] = "done"]
              /\ UNCHANGED <<hbUser, hbStatus, user_presence, updates>>
         [] beat.form = "text" ->
              IF HasColon(beat.text)
              THEN /\ hbUser' = [hbUser EXCEPT ![h] = SplitColon(beat.text)[1]]
                   /\ hbStatus' = [hbStatus EXCEPT ![h] = SplitColon(beat.text)[2]]
                   /\ SetPresence(h, SplitColon(beat.text)[1], SplitColon(beat.text)[2])
                   /\ UNCHANGED hbPc
              ELSE UNCHANGED <<hbUser, hbStatus, user_presence, updates, hbPc>>
    /\ UNCHANGED hbSent
    /\ UNCHANGED <<load, lgVars, closeRaised, stopped, arrival, delivered, scan, now, ticks, wakeAt,
                   active_connections, lockHolder, lockWaiters, metrics, wsState, peerGone,
                   closes, sent, pc, blocked, running, user_id, connection_id, data,
                   relay_message, target_ws, inactive_users, nrecv, connectLog, discTrue,
                   did>>

\* the `except WebSocketDisconnect` block: the last user_id of the channel, if it is
\* one, is written offline; the handler ends
HbDisconnected(h) ==
    /\ IF Truthy(hbUser[h])
       THEN SetPresence(h, hbUser[h], StOffline)
       ELSE UNCHANGED <<user_presence, updates>>
    /\ hbPc' = [hbPc EXCEPT ![h] = "done"]

\* receive_text raises WebSocketDisconnect: the client has closed or is gone
HbReceiveFail(h) ==
    /\ running = NoTask
    /\ hbPc[h] = "recv"
    /\ HbDisconnected(h)
    /\ UNCHANGED <<hbUser, hbStatus, nbeat, hbSent>>
    /\ UNCHANGED <<load, lgVars, closeRaised, stopped, arrival, delivered, scan, now, ticks, wakeAt,
                   active_connections, lockHolder, lockWaiters, metrics, wsState, peerGone,
                   closes, sent, pc, blocked, running, user_id, connection_id, data,
                   relay_message, target_ws, inactive_users, nrecv, connectLog, discTrue,
                   did>>

\* the outcomes of send_json on a heartbeat channel: it returns, or it raises
\* WebSocketDisconnect, or it raises another exception (which of the two a write on a
\* dead channel raises is the framework's choice)
SendOutcomes == {"ok", "WebSocketDisconnect", "Exception"}

\* the write of the presence_ack returns or raises
HbAckSent(h, outcome) ==
    /\ running = NoTask
    /\ hbPc[h] = "send_ack"
    /\ outcome # "ok" => load.faults
    /\ CASE outcome = "ok" ->
              /\ hbSent' = [hbSent EXCEPT
                              ![h] = Write(@, PresenceAck(hbUser[h], hbStatus[h], now))]
              /\ hbPc' = [hbPc EXCEPT ![h] = "recv"]
              /\ UNCHANGED <<user_presence, updates>>
         [] outcome = "WebSocketDisconnect" ->
              /\ HbDisconnected(h)
              /\ UNCHANGED hbSent
         [] outcome = "Exception" ->
              /\ hbPc' = [hbPc EXCEPT ![h] = "done"]
              /\ UNCHANGED <<user_presence, updates, hbSent>>
    /\ UNCHANGED <<hbUser, hbStatus, nbeat>>
    /\ UNCHANGED <<load, lgVars, closeRaised, stopped, arrival, delivered, scan, now, ticks, wakeAt,
                   active_connections, lockHolder, lockWaiters, metrics, wsState, peerGone,
                   closes, sent, pc, blocked, running, user_id, connection_id, data,
                   relay_message, target_ws, inactive_users, nrecv, connectLog, discTrue,
                   did>>

----------------------------------------------------------------------------
(* server.py: websocket_signaling and the dict signaling_websockets *)

AllUnchangedButLegacy ==
    UNCHANGED <<load, hbVars, closeRaised, stopped, arrival, delivered, scan, now, ticks,
                wakeAt, active_connections, lockHolder, lockWaiters, metrics, wsState,
                peerGone, closes, sent, pc, blocked, running, user_id, connection_id, data,
                relay_message, target_ws, inactive_users, nrecv, connectLog, discTrue,
                did>>

\* the envelopes clients send to the legacy endpoint
LgEnvelopes ==
    {Envelope("ping", NoneId, "None", "absent")}
    \cup {Envelope("offer", g, "sdp", "absent") : g \in {NoneId, UserA, UserB}}
    \cup {Envelope("answer", UserB, "None", "d1")}

\* message.get("payload") or message.get("data")
LgPayload(env) ==
    IF env.payload # "None" /\ env.payload # "absent" THEN env.payload
    ELSE IF env.data = "absent" THEN "None" ELSE env.data

\* {"type": msg_type, "sender_id": user_id, "target_id": target_id, "payload": payload}
LgRelayMessage(env, sender) ==
    Message(env.type, "absent", sender, env.target_id, LgPayload(env),
            <<AbsentId>>, "absent", -1)

\* {"type": "error", "error_type": "TARGET_NOT_CONNECTED", ..., "available_users": ...}
LgErrorMessage(g, av) ==
    Message("error", "TARGET_NOT_CONNECTED", AbsentId, g, "absent", av, "absent", -1)

\* the entry signaling_websockets[u] = websocket, with the key it is stored under
LgEntry(u, w) == [user_id |-> u, websocket |-> w]

\* signaling_websockets[user_id] = websocket
LgRegister(d, u, w) == DictSet(d, u, LgEntry(u, w))

\* the two except blocks: if user_id in signaling_websockets: del ...; the handler ends
LgDropped(g) ==
    /\ signaling_websockets' =
           IF DictHas(signaling_websockets, lgUser[g])
           THEN DictDel(signaling_websockets, lgUser[g])
           ELSE signaling_websockets
    /\ lgPc' = [lgPc EXCEPT ![g] = "done"]

\* a client opens legacy channel g as user u: websocket.accept() returns, the websocket is
\* stored under u and the loop starts; or accept raises and the handler ends
LgAccept(g, u, ok) ==
    /\ running = NoTask
    /\ g <= load.legacy
    /\ lgPc[g] = "idle"
    /\ g > 1 => lgPc[g - 1] # "idle"
    /\ u \in load.ids
    /\ ~ok => load.faults
    /\ lgUser' = [lgUser EXCEPT ![g] = u]
    /\ IF ok
       THEN /\ signaling_websockets' = LgRegister(signaling_websockets, u, g)
            /\ lgPc' = [lgPc EXCEPT ![g] = "recv"]
       ELSE /\ lgPc' = [lgPc EXCEPT ![g] = "done"]
            /\ UNCHANGED signaling_websockets
    /\ UNCHANGED <<lgMsg, lgTarget, lgRecv, lgSent>>
    /\ AllUnchangedButLegacy

\* receive_text returns an envelope: a ping is answered with a pong; an envelope for a
\* target that is a key of signaling_websockets is written to the target's websocket;
\* any other is answered with TARGET_NOT_CONNECTED.  The write is awaited.
LgReceive(g, env) ==
    /\ running = NoTask
    /\ lgPc[g] = "recv"
    /\ lgRecv < load.lgmsgs
    /\ lgRecv' = lgRecv + 1
    /\ CASE env.type = "ping" ->
              /\ lgMsg' = [lgMsg EXCEPT ![g] = Pong(now)]
              /\ lgTarget' = [lgTarget EXCEPT ![g] = g]
              /\ lgPc' = [lgPc EXCEPT ![g] = "send_pong"]
         [] env.type # "ping" /\ Truthy(env.target_id)
                /\ DictHas(signaling_websockets, env.target_id) ->
              /\ lgMsg' = [lgMsg EXCEPT ![g] = LgRelayMessage(env, lgUser[g])]
              /\ lgTarget' = [lgTarget EXCEPT
                                ![g] = DictGet(signaling_websockets, env.target_id).websocket]
              /\ lgPc' = [lgPc EXCEPT ![g] = "send_relay"]
         [] OTHER ->
              /\ lgMsg' = [lgMsg EXCEPT
                             ![g] = LgErrorMessage(env.target_id,
                                                   DictKeys(signaling_websockets))]
              /\ lgTarget' = [lgTarget EXCEPT ![g] = g]
              /\ lgPc' = [lgPc EXCEPT ![g] = "send_reply"]
    /\ UNCHANGED <<signaling_websockets, lgUser, lgSent>>
    /\ AllUnchangedButLegacy

\* receive_text raises WebSocketDisconnect (the client has closed or is gone), or the
\* text is no JSON and json.loads raises: either except block ends the handler
LgReceiveFail(g) ==
    /\ running = NoTask
    /\ lgPc[g] = "recv"
    /\ LgDropped(g)
    /\ UNCHANGED <<lgUser, lgMsg, lgTarget, lgRecv, lgSent>>
    /\ AllUnchangedButLegacy

\* the awaited send_json returns, and the loop goes on; or it raises, on the handler's
\* own websocket or on the target's, and an except block ends the handler
LgSendDone(g, ok) ==
    /\ running = NoTask
    /\ lgPc[g] \in {"send_pong", "send_relay", "send_reply"}
    /\ ~ok => load.faults
    /\ IF ok
       THEN /\ lgSent' = [lgSent EXCEPT ![lgTarget[g]] = Write(@, lgMsg[g])]
            /\ lgPc' = [lgPc EXCEPT ![g] = "recv"]
            /\ UNCHANGED signaling_websockets
       ELSE /\ LgDropped(g)
            /\ UNCHANGED lgSent
    /\ UNCHANGED <<lgUser, lgMsg, lgTarget, lgRecv>>
    /\ AllUnchangedButLegacy

----------------------------------------------------------------------------
(* Properties *)

\* websocket w is the websocket of an entry of the registry
InRegistry(w) == \E i \in DOMAIN active_connections : active_connections[i].websocket = w

\* websocket w was registered by a successful connect
WasRegistered(w) == \E i \in DOMAIN connectLog : connectLog[i].websocket = w

\* the last successful connect for user u
LastConnect(u) ==
    connectLog[SetMax({i \in DOMAIN connectLog : connectLog[i].user_id = u})]

\* the connection of handler c has been superseded: a later connect for its user_id
\* has succeeded
Superseded(c) ==
    \E i, j \in DOMAIN connectLog :
        /\ i < j
        /\ connectLog[i].websocket = c
        /\ connectLog[j].user_id = connectLog[i].user_id

\* how many close(code) calls websocket w has had
CloseCount(w, code) == Cardinality({i \in DOMAIN closes[w] : closes[w][i] = code})

\* C1: the registry holds at most one record per user_id, and the record's websocket
\* is the one passed to the most recent successful connect for that user_id, whatever
\* connects, disconnects, sends, pings and sweeps have run
C1_OneRecordPerUser ==
    /\ \A i, j \in DOMAIN active_connections :
           active_connections[i].user_id = active_connections[j].user_id => i = j
    /\ \A i \in DOMAIN active_connections :
           /\ \E k \in DOMAIN connectLog :
                  connectLog[k].user_id = active_connections[i].user_id
           /\ active_connections[i].websocket
                  = LastConnect(active_connections[i].user_id).websocket

\* C1 witness: a user has connected a second time while other tasks were at work, and
\* the registry holds the second websocket
C1_Witness ==
    \E i, j \in DOMAIN connectLog :
        /\ i < j
        /\ connectLog[i].user_id = connectLog[j].user_id
        /\ InRegistry(connectLog[j].websocket)
        /\ lockWaiters # <<>>

\* C2: a disconnect called by a handler whose connection has been superseded by a
\* later connect of the same user_id returns false: it never takes the branch that
\* closes the websocket of the current entry and deletes the entry
C2_StaleDisconnectRefused ==
    \A c \in Chans : Superseded(c) => pc[c] # "disc_close"

\* C3: the connection_ids of two successful connects differ
C3_ConnectionIdsUnique ==
    \A i, j \in DOMAIN connectLog :
        connectLog[i].connection_id = connectLog[j].connection_id => i = j

\* every websocket a connect has replaced is out of the registry, closed once
ReplacedAreGone ==
    \A i \in DOMAIN connectLog :
        connectLog[i].replaced # 0 =>
            /\ ~InRegistry(connectLog[i].replaced)
            /\ CloseCount(connectLog[i].replaced, CLOSE_NORMAL) = 1

\* C4: when connect succeeds over a registered connection of the user, the old
\* websocket has been closed, the entry holds the new websocket and the new
\* connection_id as connect returns, and the old websocket is never again the
\* websocket of an entry
C4_Supersession ==
    [][ /\ \A c \in Chans :
               (pc[c] = "connect_closed" /\ pc'[c] # "connect_closed") =>
                   /\ DictHas(active_connections', user_id[c])
                   /\ DictGet(active_connections', user_id[c]).websocket = c
                   /\ DictGet(active_connections', user_id[c]).connection_id
                          = connection_id'[c]
                   /\ Len(active_connections') = Len(active_connections)
                   /\ CloseCount(DictGet(active_connections, user_id[c]).websocket,
                                 CLOSE_NORMAL) = 1
        /\ ReplacedAreGone'
      ]_vars

\* C4 witness: a connect has replaced a registered connection and returned
C4_Witness ==
    \E i \in DOMAIN connectLog :
        /\ connectLog[i].replaced # 0
        /\ InRegistry(connectLog[i].websocket)
        /\ pc[connectLog[i].websocket] = "recv"

\* C5: once disconnect(user_id, connection_id) has returned true, no later disconnect
\* with the same arguments takes the branch that closes a websocket and deletes the
\* entry, whether or not the user has reconnected
C5_SecondDisconnectRefused ==
    \A t \in Tasks :
        pc[t] = "disc_close" => <<DiscUser(t), DiscCid(t)>> \notin discTrue

\* C6: a websocket that has left the registry (replaced by connect, removed by its
\* handler's disconnect or by the sweeper's) has had exactly one close by the
\* registry; one that is in the registry has had at most one (the close of the step
\* that is removing it); one that never was registered has had none
C6_ClosedExactlyOnce ==
    \A w \in Chans :
        /\ (WasRegistered(w) /\ ~InRegistry(w)) => closes[w] = <<CLOSE_NORMAL>>
        /\ InRegistry(w) => closes[w] \in {<<>>, <<CLOSE_NORMAL>>}
        /\ InRegistry(w) /\ closes[w] # <<>> =>
               \E t \in Tasks : lockHolder = t /\ pc[t] \in {"connect_closed", "disc_close"}
        /\ ~WasRegistered(w) => CloseCount(w, CLOSE_NORMAL) = 0

\* C6 witness: the sweeper has evicted a connection and its handler's own cleanup has
\* run as well, and another connection has been replaced by a reconnect
C6_Witness ==
    /\ \E w \in Chans :
           /\ WasRegistered(w)
           /\ ~InRegistry(w)
           /\ pc[w] = "done"
           /\ \E u \in {UserA, UserB} : <<u, connection_id[w]>> \in discTrue
           /\ pc[SweeperTask] = "sleep"
           /\ ticks > 0
           /\ wakeAt > now
           /\ ~Superseded(w)
    /\ \E i \in DOMAIN connectLog : connectLog[i].replaced # 0

\* C7: a channel whose user_id is empty, "undefined" or "null" in any letter case is
\* closed with 1008 and never registered, and no key of the registry is the empty
\* string or one of these strings
C7_NoSentinelKey ==
    /\ \A w \in Chans :
           CloseCount(w, CLOSE_POLICY_VIOLATION) > 0 =>
               ~WasRegistered(w) /\ closes[w] = <<CLOSE_POLICY_VIOLATION>>
    /\ \A i \in DOMAIN active_connections :
           StrLower(active_connections[i].user_id) \notin InvalidUserIds

\* the write of handler c's reply failed because its channel is lost
ReplyLost(c) == wsState[c] # "connected" \/ peerGone'[c]

\* C8: for an envelope of type "ping", with or without a target_id, the handler does
\* one thing, the write of one pong that carries the time, to its own channel: no
\* lookup, no relay, no error reply, no counter moves; the pong is what the channel
\* gets and the loop goes on, unless the channel is lost under the write
C8_PingYieldsOnePong ==
    [][ \A c \in Chans :
            (data[c].type = "ping" /\ pc'[c] # pc[c]) =>
                \/ /\ pc[c] = "touch"
                   /\ pc'[c] = "send_reply"
                   /\ did'[c] = <<Event("reply", c, Pong(now), <<>>)>>
                   /\ sent' = sent
                   /\ metrics' = metrics
                \/ /\ pc[c] = "send_reply"
                   /\ pc'[c] = "recv"
                   /\ Len(did[c]) = 1
                   /\ did[c][1].msg.type = "pong"
                   /\ did[c][1].msg.timestamp \in 0..now
                   /\ sent' = [sent EXCEPT ![c] = Append(@, did[c][1].msg)]
                   /\ metrics' = metrics
                \/ /\ pc[c] = "send_reply"
                   /\ pc'[c] = "disconnect"
                   /\ ReplyLost(c)
                   /\ sent' = sent
                   /\ metrics' = metrics
      ]_vars

\* C8 witness: a channel has got its pong, and a second ping, one that names a
\* target, is being answered
C8_Witness ==
    \E c \in Chans :
        /\ Len(sent[c]) = 1
        /\ sent[c][1].type = "pong"
        /\ data[c].type = "ping"
        /\ data[c].target_id = UserB
        /\ pc[c] = "send_reply"

\* C9: for an envelope that is no ping and whose target_id is absent or empty, the
\* handler does one thing, the write of one VALIDATION_ERROR reply to its own
\* channel: no other channel is written to, messages_relayed does not move, and the
\* loop goes on, unless the channel is lost under the write
C9_MissingTargetYieldsValidationError ==
    [][ \A c \in Chans :
            ( /\ data[c].type \notin {"None", "ping"}
              /\ data[c].target_id \in {NoneId, S_empty}
              /\ pc'[c] # pc[c] ) =>
                \/ /\ pc[c] = "touch"
                   /\ pc'[c] = "send_reply"
                   /\ did'[c] = <<Event("reply", c,
                                        ErrorResponse("VALIDATION_ERROR", user_id[c],
                                                      AbsentId, <<AbsentId>>, now),
                                        <<>>)>>
                   /\ sent' = sent
                   /\ metrics' = metrics
                \/ /\ pc[c] = "send_reply"
                   /\ pc'[c] = "recv"
                   /\ Len(did[c]) = 1
                   /\ did[c][1].msg.error_type = "VALIDATION_ERROR"
                   /\ sent' = [sent EXCEPT ![c] = Append(@, did[c][1].msg)]
                   /\ metrics' = metrics
                \/ /\ pc[c] = "send_reply"
                   /\ pc'[c] = "disconnect"
                   /\ ReplyLost(c)
                   /\ sent' = sent
                   /\ metrics' = metrics
      ]_vars

\* C9 witness: a channel has got a VALIDATION_ERROR, its loop has gone on, and an
\* offer with an empty target_id is being answered
C9_Witness ==
    \E c \in Chans :
        /\ Len(sent[c]) = 1
        /\ sent[c][1].error_type = "VALIDATION_ERROR"
        /\ data[c].type = "offer"
        /\ data[c].target_id = S_empty
        /\ pc[c] = "send_reply"
        /\ metrics.messages_relayed = 0

\* C10: the available_users of a TARGET_NOT_CONNECTED reply is the list of the
\* registry's keys at the instant is_user_connected found the target absent
C10_AvailableUsersIsLookupSnapshot ==
    \A c \in Chans : \A i \in DOMAIN did[c] :
        (did[c][i].ev = "reply" /\ did[c][i].msg.error_type = "TARGET_NOT_CONNECTED") =>
            \E j \in 1..(i - 1) :
                /\ did[c][j].ev = "lookup"
                /\ did[c][i].msg.available_users = did[c][j].users

\* the last element of a non-empty sequence
Last(q) == q[Len(q)]

\* how many events of kind e handler c has in did
EventCount(c, e) == Cardinality({i \in DOMAIN did[c] : did[c][i].ev = e})

\* C11: when a handler's relay of a non-ping envelope to a registered target is
\* written, the target's websocket (the one of the registry entry) gets exactly one
\* envelope, with the inbound type, sender_id the handler's user_id, the inbound
\* target_id and the inbound payload, or the inbound "data" when there is no payload;
\* nothing is written only if the target's channel does not take the write
C11_RelayDelivered ==
    [][ \A c \in Chans :
            (pc[c] = "relay_send" /\ pc'[c] # "relay_send") =>
                LET w == DictGet(active_connections, data[c].target_id).websocket
                    want == IF data[c].payload \notin {"None", "absent"}
                            THEN data[c].payload
                            ELSE IF data[c].data # "absent" THEN data[c].data ELSE "{}"
                IN  /\ data[c].type \notin {"None", "ping"}
                    /\ DictHas(active_connections, data[c].target_id)
                    /\ target_ws[c] = w
                    /\ EventCount(c, "relay") = 1
                    /\ \/ /\ Len(sent'[w]) = Len(sent[w]) + 1
                          /\ SubSeq(sent'[w], 1, Len(sent[w])) = sent[w]
                          /\ Last(sent'[w]).type = data[c].type
                          /\ Last(sent'[w]).sender_id = user_id[c]
                          /\ Last(sent'[w]).target_id = data[c].target_id
                          /\ Last(sent'[w]).payload = want
                          /\ Last(sent'[w]).timestamp \in 0..now
                          /\ \A o \in Chans \ {w} : sent'[o] = sent[o]
                       \/ /\ sent' = sent
                          /\ wsState[w] # "connected" \/ peerGone'[w]
      ]_vars

\* C11 witness: user a's answer, which has no payload but a "data", has reached b's
\* websocket with the data as its payload
C11_Witness ==
    \E c, w \in Chans :
        /\ c # w
        /\ pc[c] = "recv"
        /\ user_id[c] = UserA
        /\ Len(sent[w]) = 1
        /\ sent[w][1].type = "answer"
        /\ sent[w][1].sender_id = UserA
        /\ sent[w][1].target_id = UserB
        /\ sent[w][1].payload = "d1"

\* C12: a handler starts a "<type>-sent" reply with status "delivered" and the
\* target_id exactly when send_to_user has written the relay and the type is "call"
\* or "offer"; the reply is what its channel gets; after the relay of any other type
\* it is back at receive_json with no reply
C12_AckOnlyForCallAndOffer ==
    [][ \A c \in Chans :
            (pc'[c] # pc[c] /\ data[c].type # "None") =>
                LET relayed == /\ pc[c] = "relay_send"
                               /\ metrics'.messages_relayed = metrics.messages_relayed + 1
                    acking == /\ pc'[c] = "send_reply"
                              /\ Last(did'[c]).msg.status = "delivered"
                IN  /\ acking <=> (relayed /\ data[c].type \in {"call", "offer"})
                    /\ acking =>
                           /\ Last(did'[c]).ws = c
                           /\ Last(did'[c]).msg =
                                  Message(IF data[c].type = "call" THEN "call-sent"
                                                                   ELSE "offer-sent",
                                          "absent", AbsentId, data[c].target_id, "absent",
                                          <<AbsentId>>, "delivered", now)
                           /\ EventCount(c, "reply") = 0
                    /\ (relayed /\ ~acking) => (pc'[c] = "recv" /\ did'[c] = <<>>)
                    /\ (pc[c] = "send_reply" /\ pc'[c] = "recv") =>
                           sent'[c] = Append(sent[c], Last(did[c]).msg)
      ]_vars

\* C12 witness: a sender has got its "offer-sent", and its answer to the same target
\* has been relayed with no reply to it
C12_Witness ==
    \E c, w \in Chans :
        /\ c # w
        /\ pc[c] = "recv"
        /\ Len(sent[c]) = 1
        /\ sent[c][1].type = "offer-sent"
        /\ sent[c][1].status = "delivered"
        /\ sent[c][1].target_id = UserB
        /\ Len(sent[w]) = 2
        /\ sent[w][2].type = "answer"
        /\ nrecv = 2

\* C13: the sender_id of every relay envelope a handler builds or writes, and of
\* every error reply it writes, is the user_id the handler registered under,
\* whatever the inbound envelope holds
C13_SenderIdFromConnection ==
    \A c \in Chans :
        /\ relay_message[c] # NoMessage => relay_message[c].sender_id = user_id[c]
        /\ \A i \in DOMAIN did[c] :
               /\ did[c][i].ev = "relay" => did[c][i].msg.sender_id = user_id[c]
               /\ (did[c][i].ev = "reply" /\ did[c][i].msg.type = "error") =>
                      did[c][i].msg.sender_id = user_id[c]

\* C13 witness: an envelope that carries another user's sender_id is being relayed
C13_Witness ==
    \E c \in Chans :
        /\ data[c].sender_id \notin {AbsentId, user_id[c]}
        /\ pc[c] = "relay_send"
        /\ Last(did[c]).ev = "relay"
        /\ Last(did[c]).msg.sender_id = user_id[c]

\* C14: when the write to a registered target's websocket fails, send_to_user counts
\* an error and no relay, the handler starts exactly one reply, a SEND_FAILED error,
\* and no registry entry is removed; the error is what the sender's channel gets and
\* its loop goes on, unless its own channel is lost under the write
C14_SendFailedReported ==
    [][ \A c \in Chans :
            /\ ( /\ pc[c] = "relay_send"
                 /\ pc'[c] # "relay_send"
                 /\ sent'[target_ws[c]] = sent[target_ws[c]] ) =>
                   /\ metrics' = [metrics EXCEPT !.errors = @ + 1]
                   /\ pc'[c] = "send_reply"
                   /\ EventCount(c, "reply") = 0
                   /\ did'[c] = Append(did[c],
                                       Event("reply", c,
                                             ErrorResponse("SEND_FAILED", user_id[c],
                                                           data[c].target_id,
                                                           <<AbsentId>>, now),
                                             <<>>))
                   /\ active_connections' = active_connections
                   /\ sent' = sent
            /\ ( /\ pc[c] = "send_reply"
                 /\ pc'[c] # "send_reply"
                 /\ Last(did[c]).msg.error_type = "SEND_FAILED" ) =>
                   /\ active_connections' = active_connections
                   /\ metrics' = metrics
                   /\ \/ /\ pc'[c] = "recv"
                         /\ sent' = [sent EXCEPT ![c] = Append(@, Last(did[c]).msg)]
                      \/ /\ pc'[c] = "disconnect"
                         /\ ReplyLost(c)
                         /\ sent' = sent
      ]_vars

\* C14 witness: the write to a registered target failed, the sender has got its
\* SEND_FAILED and is back at receive_json, and both entries are in the registry
C14_Witness ==
    \E c, w \in Chans :
        /\ c # w
        /\ pc[c] = "recv"
        /\ Len(sent[c]) = 1
        /\ sent[c][1].error_type = "SEND_FAILED"
        /\ metrics.errors = 1
        /\ InRegistry(c)
        /\ InRegistry(w)
        /\ sent[w] = <<>>

\* the places of a handler inside its receive loop
LoopPcs == {"recv", "touch", "isconn", "list", "relay", "relay_send", "send_reply"}

\* the places of a task inside disconnect
DisconnectPcs == {"disconnect", "disc_close"}

\* C15: a handler that was registered leaves its receive loop only into one call of
\* disconnect with its own user_id and connection_id, whichever await raised; when
\* the call returns the registry holds no entry with that connection_id; the handler
\* has ended and calls nothing again
C15_DisconnectOnceOnExit ==
    [][ \A c \in Chans :
            /\ (pc[c] \in LoopPcs /\ pc'[c] \notin LoopPcs) =>
                   /\ pc'[c] = "disconnect"
                   /\ WasRegistered(c)
                   /\ DiscUser(c) = user_id[c]
                   /\ DiscCid(c) = connection_id[c]
            /\ (pc'[c] = "disconnect" /\ pc[c] # "disconnect") => pc[c] \in LoopPcs
            /\ (pc[c] \in DisconnectPcs /\ pc'[c] \notin DisconnectPcs) =>
                   /\ pc'[c] = "done"
                   /\ \A i \in DOMAIN active_connections' :
                          active_connections'[i].connection_id # connection_id[c]
            /\ pc[c] = "done" => pc'[c] = "done"
      ]_vars

\* C15 witness: one handler has ended after the write of a reply failed, its entry
\* removed by its disconnect, and another has ended after it was superseded
C15_Witness ==
    \E c, o \in Chans :
        /\ c # o
        /\ pc[c] = "done"
        /\ WasRegistered(c)
        /\ <<user_id[c], connection_id[c]>> \in discTrue
        /\ nrecv > 0
        /\ sent[c] = <<>>
        /\ ~InRegistry(c)
        /\ pc[o] = "done"
        /\ Superseded(o)

\* websocket w is the websocket of an entry of registry d
RegistryHas(d, w) == \E i \in DOMAIN d : d[i].websocket = w

\* the sweeper finishes a sweep in this step: it scanned and found nothing, or it
\* comes back from the last disconnect of its list
SweepEnds ==
    /\ pc'[SweeperTask] = "sleep"
    /\ wakeAt' # wakeAt

\* the scan of the sweep that ends in this step
EndingScan ==
    IF pc[SweeperTask] = "sleep" THEN [at |-> now, conns |-> active_connections] ELSE scan

\* C16: when a sweep ends, every connection whose last_ping was more than
\* WS_INACTIVITY_TIMEOUT old at the scan is out of the registry and its websocket has
\* had exactly one close, also if its handler ended or its user reconnected meanwhile
C16_InactiveEvictedOnce ==
    [][ SweepEnds =>
            \A i \in DOMAIN EndingScan.conns :
                LET e == EndingScan.conns[i]
                IN  EndingScan.at - e.last_ping > WS_INACTIVITY_TIMEOUT =>
                        /\ ~RegistryHas(active_connections', e.websocket)
                        /\ closes'[e.websocket] = <<CLOSE_NORMAL>>
      ]_vars

\* C16 witness: a sweep is at its last entry, an inactive connection whose user has
\* reconnected since the scan
C16_Witness ==
    /\ pc[SweeperTask] = "disconnect"
    /\ lockHolder = SweeperTask
    /\ Len(inactive_users) = 1
    /\ \E i \in DOMAIN scan.conns :
           /\ scan.at - scan.conns[i].last_ping > WS_INACTIVITY_TIMEOUT
           /\ DictHas(active_connections, scan.conns[i].user_id)
           /\ DictGet(active_connections, scan.conns[i].user_id).websocket
                  # scan.conns[i].websocket
           /\ closes[scan.conns[i].websocket] = <<CLOSE_NORMAL>>

\* the sweeper's steps of the sweep in progress leave alone every entry of the
\* registry that passes `fresh` at the scan: the scan does not list it, the close of
\* a disconnect is not on its websocket, the delete of a disconnect is not of it
SweepSpares(fresh(_, _)) ==
    /\ (pc[SweeperTask] = "sleep" /\ pc'[SweeperTask] # "sleep") =>
           \A i \in DOMAIN active_connections :
               fresh(active_connections[i], now) =>
                   \A k \in DOMAIN inactive_users' :
                       inactive_users'[k] # <<active_connections[i].user_id,
                                              active_connections[i].connection_id>>
    /\ (pc[SweeperTask] \in DisconnectPcs /\ pc'[SweeperTask] # pc[SweeperTask]) =>
           \A i \in DOMAIN scan.conns :
               (fresh(scan.conns[i], scan.at)
                  /\ RegistryHas(active_connections, scan.conns[i].websocket)) =>
                   /\ RegistryHas(active_connections', scan.conns[i].websocket)
                   /\ closes'[scan.conns[i].websocket] = closes[scan.conns[i].websocket]
                   /\ wsState'[scan.conns[i].websocket] = wsState[scan.conns[i].websocket]

\* last_ping is no more than WS_INACTIVITY_TIMEOUT old at time t
TouchedRecently(conn, t) == t - conn.last_ping <= WS_INACTIVITY_TIMEOUT

\* last_ping is no more than WS_INACTIVITY_TIMEOUT old and connected_at no more than
\* WS_CONNECTION_TIMEOUT old at time t
TouchedRecentlyAndYoung(conn, t) ==
    /\ t - conn.last_ping <= WS_INACTIVITY_TIMEOUT
    /\ t - conn.connected_at <= WS_CONNECTION_TIMEOUT

\* C17 (as stated): a connection touched no more than WS_INACTIVITY_TIMEOUT before
\* the scan survives the sweep: the sweeper does not list it, close its websocket or
\* delete its entry
C17_TouchedSurvives == [][SweepSpares(TouchedRecently)]_vars

\* C17 (amended): a connection touched no more than WS_INACTIVITY_TIMEOUT before the
\* scan and connected no more than WS_CONNECTION_TIMEOUT before it survives the
\* sweep: the sweeper does not list it, close its websocket or delete its entry
C17_TouchedAndYoungSurvives == [][SweepSpares(TouchedRecentlyAndYoung)]_vars

\* C17 witness: a sweep has evicted a connection and ended, and a connection that
\* got a ping after the clock advanced is in the registry, its websocket open
C17_Witness ==
    /\ pc[SweeperTask] = "sleep"
    /\ wakeAt > now
    /\ discTrue # {}
    /\ \A c \in Chans : pc[c] \notin DisconnectPcs \cup {"done"}
    /\ \E i \in DOMAIN active_connections :
           /\ active_connections[i].last_ping > active_connections[i].connected_at
           /\ closes[active_connections[i].websocket] = <<>>
           /\ wsState[active_connections[i].websocket] = "connected"

\* the (user_id, connection_id) of the entries of d, in order, for which at time t
\* now - last_ping > WS_INACTIVITY_TIMEOUT or now - connected_at > WS_CONNECTION_TIMEOUT
DueAt(d, t) ==
    LET due == SelectSeq(d, LAMBDA e : \/ t - e.last_ping > WS_INACTIVITY_TIMEOUT
                                       \/ t - e.connected_at > WS_CONNECTION_TIMEOUT)
    IN  [i \in DOMAIN due |-> <<due[i].user_id, due[i].connection_id>>]

\* q is p without some of its first elements
IsSuffix(q, p) == \E n \in 0..Len(p) : q = SubSeq(p, n + 1, Len(p))

\* while the sweeper works through a sweep, what is left of its list is the rest of
\* the entries due at the scan, and the disconnect it is in is for the first of them
SweepListOk ==
    IF pc[SweeperTask] \in DisconnectPcs
    THEN /\ inactive_users # <<>>
         /\ IsSuffix(inactive_users, DueAt(scan.conns, scan.at))
         /\ <<DiscUser(SweeperTask), DiscCid(SweeperTask)>> = Head(inactive_users)
    ELSE inactive_users = <<>>

\* C18: the sweeper calls disconnect for exactly the entries for which, at its scan,
\* now - last_ping > WS_INACTIVITY_TIMEOUT or now - connected_at >
\* WS_CONNECTION_TIMEOUT, one call each, in order, with the connection_id read at
\* the scan; an entry older than WS_CONNECTION_TIMEOUT is among them however
\* recently it was touched
C18_SweeperCallsDisconnectForDue ==
    [][ /\ (pc[SweeperTask] = "sleep" /\ (pc'[SweeperTask] # "sleep" \/ wakeAt' # wakeAt)) =>
               inactive_users' = DueAt(active_connections, now)
        /\ (pc[SweeperTask] \in DisconnectPcs /\ pc'[SweeperTask] \notin DisconnectPcs) =>
               Len(inactive_users) = 1
        /\ (pc[SweeperTask] = "disc_close" /\ pc'[SweeperTask] = "disconnect") =>
               inactive_users' = Tail(inactive_users)
        /\ (pc[SweeperTask] = "disconnect" /\ pc'[SweeperTask] = "disconnect") =>
               inactive_users' \in {inactive_users, Tail(inactive_users)}
        /\ SweepListOk'
      ]_vars

\* C18 witness: the sweeper is in disconnect for a connection that got a ping at the
\* very second of the scan and is older than WS_CONNECTION_TIMEOUT
C18_Witness ==
    /\ pc[SweeperTask] \in DisconnectPcs
    /\ lockHolder = SweeperTask
    /\ \E i \in DOMAIN scan.conns :
           /\ scan.conns[i].last_ping = scan.at
           /\ scan.at - scan.conns[i].connected_at > WS_CONNECTION_TIMEOUT
           /\ Head(inactive_users) = <<scan.conns[i].user_id, scan.conns[i].connection_id>>

\* C19: while the write of a relay is pending, no other task is kept waiting: none
\* sits in the queue of the lock
C19_PendingWriteBlocksNobody ==
    \A c \in Chans : pc[c] = "relay_send" => \A t \in Tasks : ~blocked[t]

\* C20: a write is started on a websocket only while the websocket is that of an
\* entry of the registry: a handler starts no reply on its own websocket after its
\* entry was removed, and a relay is written to the target's registered websocket
C20_NoAccessAfterRemoval ==
    [][ \A c \in Chans :
            /\ (pc'[c] = "send_reply" /\ pc[c] # "send_reply") =>
                   RegistryHas(active_connections', c)
            /\ (pc'[c] = "relay_send" /\ pc[c] # "relay_send") =>
                   RegistryHas(active_connections', target_ws'[c])
      ]_vars

\* C21: once the server has shut down, no websocket of an entry of the registry is open
C21_ShutdownClosesRegistry ==
    stopped =>
        \A i \in DOMAIN active_connections :
            wsState[active_connections[i].websocket] # "connected"

\* handler c takes a step of an error path: its loop ends (receive_json or the write of
\* a reply has raised), it goes through disconnect, or the write of its relay fails
ErrorStep(c) ==
    /\ pc'[c] # pc[c]
    /\ pc[c] \in LoopPcs \cup DisconnectPcs
    /\ \/ pc'[c] \in DisconnectPcs \cup {"done"}
       \/ pc[c] = "relay_send" /\ metrics'.errors # metrics.errors

\* the step leaves the entries of the users other than u as they are, and their
\* websockets as open or closed as they are
OthersUntouched(u) ==
    \A i \in DOMAIN active_connections :
        LET e == active_connections[i]
        IN  e.user_id # u =>
                /\ \E j \in DOMAIN active_connections' : active_connections'[j] = e
                /\ closes'[e.websocket] = closes[e.websocket]
                /\ wsState'[e.websocket] = wsState[e.websocket]

\* C22: a step of an error path of one user's handler (receive error, failed reply
\* write, failed relay, the disconnect that follows) leaves the registry entry of every
\* other user_id in place and unchanged, last_ping included, and closes none of their
\* websockets
C22_ErrorsStayLocal ==
    [][\A c \in Chans : ErrorStep(c) => OthersUntouched(user_id[c])]_vars

\* C22 witness: a handler whose relay failed has ended through disconnect, and the
\* entry of the other user is in the registry, its websocket not closed
C22_Witness ==
    \E c, o \in Chans :
        /\ pc[c] = "done"
        /\ <<user_id[c], connection_id[c]>> \in discTrue
        /\ metrics.errors > 0
        /\ user_id[o] # user_id[c]
        /\ InRegistry(o)
        /\ closes[o] = <<>>

\* the users whose presence heartbeat channel h has written
UpdatedBy(h) == {updates[i].user_id : i \in {k \in DOMAIN updates : updates[k].by = h}}

\* C23: when the handler of a heartbeat channel ends, every user whose presence it has
\* updated has status "offline"
C23_OfflineAfterDisconnect ==
    [][ \A h \in HbChans :
            (hbPc[h] # "done" /\ hbPc'[h] = "done") =>
                \A u \in UpdatedBy(h) :
                    GetUserPresence(user_presence', u).status = StOffline
      ]_vars

\* the users a heartbeat can name
PresenceIds == {UserA, UserB, S_empty, NoneId}

\* C24: a write to user_presence for user u with status st makes get_user_presence(u)
\* return st and leaves what it returns for every other user as it was; for a user
\* never written it returns the default, status "offline"
C24_PresenceLastWriteWins ==
    [][ /\ updates' # updates =>
               /\ updates' = Append(updates, Last(updates'))
               /\ GetUserPresence(user_presence', Last(updates').user_id).status
                      = Last(updates').status
               /\ \A u \in PresenceIds \ {Last(updates').user_id} :
                      GetUserPresence(user_presence', u) = GetUserPresence(user_presence, u)
        /\ updates' = updates =>
               \A u \in PresenceIds :
                   GetUserPresence(user_presence', u) = GetUserPresence(user_presence, u)
        /\ \A u \in PresenceIds :
               (\A i \in DOMAIN updates' : updates'[i].user_id # u) =>
                   GetUserPresence(user_presence', u) = PresenceDefault(u)
      ]_vars

\* C24 witness: two channels have written the presence of one user with different
\* statuses, the later one stands, and another user has a record too
C24_Witness ==
    /\ Len(updates) = 3
    /\ \E i, j \in DOMAIN updates :
           /\ i < j
           /\ j = Len(updates)
           /\ updates[i].user_id = updates[j].user_id
           /\ updates[i].by # updates[j].by
           /\ updates[i].status # updates[j].status
           /\ updates[j].status # StOffline
           /\ GetUserPresence(user_presence, updates[j].user_id).status = updates[j].status
    /\ \E u \in PresenceIds : ~DictHas(user_presence, u)
    /\ Len(user_presence) = 2

\* C25: a heartbeat that writes a presence record starts one presence_ack on its channel,
\* and the ack written carries the user_id and the status of the record
C25_HeartbeatAcked ==
    [][ /\ (nbeat' # nbeat /\ updates' # updates) =>
               \E h \in HbChans :
                   /\ hbPc[h] = "recv"
                   /\ hbPc'[h] = "send_ack"
                   /\ Last(updates').by = h
        /\ \A h \in HbChans :
               hbSent'[h] # hbSent[h] =>
                   /\ hbSent'[h] = Append(hbSent[h], Last(hbSent'[h]))
                   /\ Last(hbSent'[h]).type = "presence_ack"
                   /\ \E i \in DOMAIN updates :
                          /\ updates[i].by = h
                          /\ updates[i].user_id = Last(hbSent'[h]).user_id
                          /\ updates[i].status = Last(hbSent'[h]).status
      ]_vars

C27_SenderOrderKept ==
    \A w \in Chans :
        \A i, j \in DOMAIN delivered[w] :
            (i < j /\ delivered[w][i].from = delivered[w][j].from) =>
                delivered[w][i].rank < delivered[w][j].rank

\* C27 witness: two relays of one sender have been written to one channel
C27_Witness ==
    \E w \in Chans :
        /\ Len(delivered[w]) = 2
        /\ delivered[w][1].from = delivered[w][2].from
        /\ Len(sent[w]) >= 2

\* the handlers that have a write in progress on websocket w: a relay to w, or a reply
\* of w's own handler
Writers(w) ==
    {c \in Chans : pc[c] = "relay_send" /\ target_ws[c] = w}
    \cup {c \in Chans : c = w /\ pc[c] = "send_reply"}

\* C28: at most one write is in progress on a websocket at any instant
C28_OneWriterPerChannel == \A w \in Chans : Cardinality(Writers(w)) <= 1

\* C29: no task holds the lock while its close of a websocket is in progress
C29_NoCloseInsideLock ==
    \A t \in Tasks : pc[t] \in {"connect_closed", "disc_close"} => lockHolder # t

\* C30: the sweeper holds the lock when it scans the registry
C30_ScanInsideLock ==
    [][ (pc[SweeperTask] = "sleep" /\ (pc'[SweeperTask] # "sleep" \/ wakeAt' # wakeAt)) =>
            lockHolder = SweeperTask
      ]_vars

\* C31: when the close of an evicted connection returns or raises inside the
\* sweeper's disconnect, the entry is deleted all the same, and the sweeper goes on to
\* the next entry of its list, or, after the last, to its next sleep; the sweeper never
\* leaves its loop, and no websocket whose close raised is left in the registry
C31_SweepSurvivesCloseFailure ==
    [][ /\ (pc[SweeperTask] = "disc_close" /\ pc'[SweeperTask] # "disc_close") =>
               /\ ~DictHas(active_connections', DiscUser(SweeperTask))
               /\ inactive_users' = Tail(inactive_users)
               /\ IF Tail(inactive_users) # <<>>
                  THEN pc'[SweeperTask] = "disconnect"
                  ELSE /\ pc'[SweeperTask] = "sleep"
                       /\ wakeAt' = now + WS_CLEANUP_INTERVAL
        /\ pc'[SweeperTask] \in {"sleep"} \cup DisconnectPcs
        /\ \A w \in closeRaised' : ~RegistryHas(active_connections', w)
      ]_vars

\* C31 witness: in one sweep the close of the first evicted connection raised, its
\* entry is gone, and the sweeper is closing the second
C31_Witness ==
    /\ pc[SweeperTask] = "disc_close"
    /\ Len(scan.conns) = 2
    /\ Len(inactive_users) = 1
    /\ closeRaised = {scan.conns[1].websocket}
    /\ <<scan.conns[1].user_id, scan.conns[1].connection_id>> \in discTrue
    /\ ~InRegistry(scan.conns[1].websocket)

\* the sum of the lengths of the sequences f[w], w in S
RECURSIVE SumLen(_, _)
SumLen(f, S) ==
    IF S = {} THEN 0
    ELSE LET w == CHOOSE x \in S : TRUE IN Len(f[w]) + SumLen(f, S \ {w})

\* C33: messages_relayed is the number of relays written to a target's channel; a
\* send_to_user that ends leaves errors one higher when its write raised and as it is
\* when its write returned; a send_to_user that finds no entry, and every other step,
\* leave both counters as they are
C33_CountersMatchSends ==
    [][ /\ metrics'.messages_relayed = SumLen(delivered', Chans)
        /\ \A c \in Chans :
               (pc[c] = "relay_send" /\ pc'[c] # "relay_send") =>
                   IF delivered' # delivered
                   THEN /\ metrics'.messages_relayed = metrics.messages_relayed + 1
                        /\ metrics'.errors = metrics.errors
                   ELSE /\ metrics'.messages_relayed = metrics.messages_relayed
                        /\ metrics'.errors = metrics.errors + 1
        /\ (\A c \in Chans : ~(pc[c] = "relay_send" /\ pc'[c] # "relay_send")) =>
               /\ metrics'.messages_relayed = metrics.messages_relayed
               /\ metrics'.errors = metrics.errors
      ]_vars

\* C33 witness: one relay has been written and the write of another has raised
C33_Witness ==
    /\ metrics.messages_relayed = 1
    /\ metrics.errors = 1
    /\ SumLen(delivered, Chans) = 1
    /\ SumLen(sent, Chans) >= 1

\* the connection_id of a handler that has none: connect returned ""
NoConnectionId == <<S_empty, -1, -1>>

\* C34: a connect that fails (accept raises) leaves the registry, its counters and the
\* websockets of the other handlers as they are; the endpoint has "" for a
\* connection_id, closes its websocket with 1011 and ends, and never enters disconnect
C34_FailedConnectChangesNothing ==
    [][ \A c \in Chans :
            (pc[c] = "idle" /\ pc'[c] # "idle" /\ pc'[c] # "connect"
               /\ closes'[c] # <<CLOSE_POLICY_VIOLATION>>) =>
                /\ active_connections' = active_connections
                /\ metrics' = metrics
                /\ connectLog' = connectLog
                /\ connection_id'[c] = NoConnectionId
                /\ closes'[c] = <<CLOSE_INTERNAL_ERROR>>
                /\ \A o \in Chans \ {c} : closes'[o] = closes[o] /\ wsState'[o] = wsState[o]
                /\ pc'[c] = "done"
      ]_vars

\* C34 witness: the connect of a second channel for a registered user has failed; the
\* user's entry and its websocket are as they were
C34_Witness ==
    \E c, o \in Chans :
        /\ c # o
        /\ pc[c] = "done"
        /\ closes[c] = <<CLOSE_INTERNAL_ERROR>>
        /\ connection_id[c] = NoConnectionId
        /\ user_id[c] = user_id[o]
        /\ InRegistry(o)
        /\ closes[o] = <<>>
        /\ metrics.total_connections = 1

\* C35: a heartbeat that writes no presence record leaves user_presence as it is and
\* the handler of its channel in its loop, at receive_text
C35_MalformedHeartbeatIgnored ==
    [][ (nbeat' # nbeat /\ updates' = updates) =>
            /\ user_presence' = user_presence
            /\ \A h \in HbChans : hbPc[h] = "recv" => hbPc'[h] = "recv"
      ]_vars

\* handler c starts the reply of an error of type et
StartsError(c, et) ==
    /\ pc[c] # "send_reply"
    /\ pc'[c] = "send_reply"
    /\ Last(did'[c]).msg.error_type = et

\* C36: a SEND_FAILED reply is started only when the write of the relay to a registered
\* target has raised: by the step that ends that write
C36_SendFailedOnlyAfterWrite ==
    [][\A c \in Chans : StartsError(c, "SEND_FAILED") => pc[c] = "relay_send"]_vars

\* C37: the available_users of a TARGET_NOT_CONNECTED reply do not hold its target_id
C37_TargetNotAmongAvailable ==
    \A c \in Chans :
        \A i \in DOMAIN did[c] :
            (did[c][i].ev = "reply" /\ did[c][i].msg.error_type = "TARGET_NOT_CONNECTED") =>
                \A k \in DOMAIN did[c][i].msg.available_users :
                    did[c][i].msg.available_users[k] # did[c][i].msg.target_id

\* the entry of websocket c has been replaced by a later connect of its user
Replaced(c) == \E i \in DOMAIN connectLog : connectLog[i].replaced = c

\* C38: the handler of a replaced connection starts no relay: no envelope is written
\* to a target with its user's sender_id after a newer connect of that user
C38_SupersededRelaysNothing ==
    [][ \A c \in Chans :
            (Replaced(c) /\ pc[c] # "relay_send") => pc'[c] # "relay_send"
      ]_vars

\* legacy channel h is the websocket stored under its user's id
LgRegistered(d, h) == DictHas(d, lgUser[h]) /\ DictGet(d, lgUser[h]).websocket = h

\* legacy channel h is open: its handler is in its loop
LgOpen(h) == lgPc[h] \in {"recv", "send_pong", "send_relay", "send_reply"}

\* C39: in the legacy endpoint, when the handler of an earlier channel of user u ends,
\* the registration of a later channel of u that is still open stays in
\* signaling_websockets
C39_LaterChannelStaysRegistered ==
    [][ \A g \in LgChans, h \in LgChans :
            ( /\ g < h
              /\ lgUser[g] = lgUser[h]
              /\ LgOpen(g) /\ lgPc'[g] = "done"
              /\ LgOpen(h)
              /\ LgRegistered(signaling_websockets, h) )
            => LgRegistered(signaling_websockets', h)
      ]_vars

\* C40: in the legacy endpoint, when the write of a relayed envelope to the target's
\* websocket is over, failed or not, the sender's handler is back at its receive and the
\* sender's registration is still there
C40_RelayFailureKeepsSender ==
    [][ \A g \in LgChans :
            (lgPc[g] = "send_relay" /\ lgPc'[g] # "send_relay")
            => /\ lgPc'[g] = "recv"
               /\ DictHas(signaling_websockets, lgUser[g])
                      => DictHas(signaling_websockets', lgUser[g])
      ]_vars

\* the entry of websocket w is expired and nothing will touch it: no envelope is still
\* to come, and no handler of its user is on its way to update_ping
Dead(w) ==
    /\ nrecv = load.recv
    /\ \E i \in DOMAIN active_connections :
           /\ active_connections[i].websocket = w
           /\ Expired(active_connections[i], now)
           /\ \A c \in Chans :
                  user_id[c] = active_connections[i].user_id => pc[c] # "touch"

\* C32: with the sweeper and the handlers taking every step they can take, an expired
\* entry that no inbound message will touch is eventually removed from the registry
C32_DeadEntryEvicted == \A w \in Chans : Dead(w) ~> ~InRegistry(w)

----------------------------------------------------------------------------
Next ==
    \/ \E d \in TickSteps : Tick(d)
    \/ \E t \in Tasks : LockWake(t)
    \/ \E c \in Chans, raw \in RawUserIds : Reject(c, raw)
    \/ \E c \in Chans, raw \in RawUserIds, r \in RandValues : AcceptOk(c, raw, r)
    \/ \E c \in Chans, raw \in RawUserIds : AcceptFail(c, raw)
    \/ \E c \in Chans : ConnectLocked(c)
    \/ \E c \in Chans : ConnectClosed(c)
    \/ \E c \in Chans, env \in Envelopes : Receive(c, env)
    \/ \E c \in Chans : ReceiveFail(c)
    \/ \E c \in Chans : Touch(c)
    \/ \E c \in Chans : IsUserConnected(c)
    \/ \E c \in Chans : GetConnectedUsers(c)
    \/ \E c \in Chans : SendToUser(c)
    \/ \E c \in Chans, ok \in BOOLEAN : RelaySent(c, ok)
    \/ \E c \in Chans, ok \in BOOLEAN : ReplySent(c, ok)
    \/ \E t \in Tasks : Disconnect(t)
    \/ \E t \in Tasks, raised \in BOOLEAN : DisconnectClosed(t, raised)
    \/ Sweep
    \/ ShutdownEvent
    \/ \E h \in HbChans, ok \in BOOLEAN : HbAccept(h, ok)
    \/ \E h \in HbChans, beat \in Heartbeats : HbReceive(h, beat)
    \/ \E h \in HbChans : HbReceiveFail(h)
    \/ \E h \in HbChans, outcome \in SendOutcomes : HbAckSent(h, outcome)
    \/ \E g \in LgChans, u \in {UserA, UserB}, ok \in BOOLEAN : LgAccept(g, u, ok)
    \/ \E g \in LgChans, env \in LgEnvelopes : LgReceive(g, env)
    \/ \E g \in LgChans : LgReceiveFail(g)
    \/ \E g \in LgChans, ok \in BOOLEAN : LgSendDone(g, ok)

Spec == Init /\ [][Next]_vars

\* the steps the sweeper task takes by itself once it can: the end of its sleep, its turn
\* at the lock, its disconnects and the return of the close inside them
SweeperStep ==
    \/ Sweep
    \/ LockWake(SweeperTask)
    \/ Disconnect(SweeperTask)
    \/ \E raised \in BOOLEAN : DisconnectClosed(SweeperTask, raised)

\* the steps a handler takes by itself once it can: its turn at the lock, the blocks it
\* runs with the lock, and the return of a close it awaits
HandlerStep ==
    \E c \in Chans :
        \/ LockWake(c)
        \/ ConnectLocked(c)
        \/ ConnectClosed(c)
        \/ Touch(c)
        \/ IsUserConnected(c)
        \/ GetConnectedUsers(c)
        \/ SendToUser(c)
        \/ Disconnect(c)
        \/ \E raised \in BOOLEAN : DisconnectClosed(c, raised)

\* The event loop runs every task that is ready, so the sweeper and the handlers take
\* the steps above.  What clients do (connect, send, close), the clock, and the return
\* of a write on a channel (it comes when the peer reads) are under no fairness.
FairSpec == Spec /\ WF_vars(SweeperStep) /\ WF_vars(HandlerStep)

====
